---- MODULE Spec2Model ----
(***************************************************************************)
(* Model of the DualBootPatcher core: MultiBootPatcher (two-pass ZIP       *)
(* rewrite with cancellation) and BootImage (format detection, load and    *)
(* create dispatch).                                                       *)
(*                                                                         *)
(* Entry names are sequences of tokens; the name is the concatenation of   *)
(* its tokens, and every token after the first is a suffix that begins     *)
(* with a dot (".img", ".orig").  File paths (FileInfo::filename) are      *)
(* sequences of one-character strings.                                     *)
(***************************************************************************)
EXTENDS Integers, Sequences, FiniteSets, TLC

\* ------------------------------------------------------------------------
\* Bounds
\* ------------------------------------------------------------------------
MaxEntries == 4
MaxReuseEntries == 2
MaxLiveEntries == 3
MaxEdits == 2
MaxEqEdits == 2
MaxGzEntries == 3
MaxStemLen == 2
MaxImgEntries == 2
MaxByteEntries == 3

\* ------------------------------------------------------------------------
\* Program constants
\* ------------------------------------------------------------------------
MaxBootImageSize == 31457280

UpdateBinary == <<"META-INF/com/google/android/update-binary">>
UpdateBinaryOrig == <<"META-INF/com/google/android/update-binary", ".orig">>
UpdaterScript == <<"META-INF/com/google/android/updater-script">>
BbWrapper == <<"multiboot/bb-wrapper.sh">>
InfoProp == <<"multiboot/info.prop">>

\* BootImage::Type
Types == {"Android", "Bump", "Loki", "Mtk", "SonyElf"}

\* ------------------------------------------------------------------------
\* Generic helpers
\* ------------------------------------------------------------------------
Last(s) == s[Len(s)]

Range(s) == {s[i] : i \in 1..Len(s)}

\* StringUtils::ends_with on token names: the suffix is the last token
ends_with(name, suffix) == Len(name) > 1 /\ Last(name) = suffix

\* tolower() on the characters that occur in the modelled paths
ToLower(c) ==
    CASE c = "Z" -> "z"
      [] c = "I" -> "i"
      [] c = "P" -> "p"
      [] OTHER -> c

\* StringUtils::iends_with on character sequences
iends_with(path, suffix) ==
    /\ Len(path) >= Len(suffix)
    /\ \A i \in 1..Len(suffix) :
          ToLower(path[Len(path) - Len(suffix) + i]) = ToLower(suffix[i])

DotZip == <<".", "z", "i", "p">>

\* ------------------------------------------------------------------------
\* Boot image formats.  The bytes of a file are abstracted to the set of
\* marks that the format probes look for.
\* ------------------------------------------------------------------------
Marks == {"loki", "android", "bump", "mtk", "elf", "cpio"}

\* LokiFormat::isValid: LOKI! magic at offset 0x400
LokiIsValid(m) == "loki" \in m

\* AndroidFormat::isValid: ANDROID! header found and payloads fit
AndroidIsValid(m) == "android" \in m

\* BumpFormat::isValid: Android-valid and the bump trailer is present
BumpIsValid(m) == AndroidIsValid(m) /\ "bump" \in m

\* MtkFormat::isValid: Android header and kernel or ramdisk starts with the
\* MTK magic
MtkIsValid(m) == "android" \in m /\ "mtk" \in m

\* SonyElfFormat::isValid: ELF32 header with Sony segments
SonyElfIsValid(m) == "elf" \in m

FormatIsValid(t, m) ==
    CASE t = "Loki" -> LokiIsValid(m)
      [] t = "Bump" -> BumpIsValid(m)
      [] t = "Mtk" -> MtkIsValid(m)
      [] t = "Android" -> AndroidIsValid(m)
      [] t = "SonyElf" -> SonyElfIsValid(m)

\* BootImage::isValid
BootImageIsValid(m) ==
    \/ LokiIsValid(m)
    \/ BumpIsValid(m)
    \/ MtkIsValid(m)
    \/ AndroidIsValid(m)
    \/ SonyElfIsValid(m)

\* The if/else-if chain of BootImage::load: the isValid calls it makes, in
\* order, the source type and the target type it records.  probed holds the
\* formats whose isValid was called; src is "None" when no format accepted.
LoadSwapped(m) ==
    IF LokiIsValid(m) THEN
        [probed |-> <<"Loki">>, src |-> "Loki", type |-> "Android"]
    ELSE IF MtkIsValid(m) THEN
        [probed |-> <<"Loki", "Mtk">>, src |-> "Mtk", type |-> "Mtk"]
    ELSE IF BumpIsValid(m) THEN
        [probed |-> <<"Loki", "Mtk", "Bump">>, src |-> "Bump", type |-> "Bump"]
    ELSE IF AndroidIsValid(m) THEN
        [probed |-> <<"Loki", "Mtk", "Bump", "Android">>,
         src |-> "Android", type |-> "Android"]
    ELSE IF SonyElfIsValid(m) THEN
        [probed |-> <<"Loki", "Mtk", "Bump", "Android", "SonyElf">>,
         src |-> "SonyElf", type |-> "SonyElf"]
    ELSE
        [probed |-> <<"Loki", "Mtk", "Bump", "Android", "SonyElf">>,
         src |-> "None", type |-> "None"]

LoadLokiKeepsType(m) ==
    IF LokiIsValid(m) THEN
        [probed |-> <<"Loki">>, src |-> "Loki", type |-> "Loki"]
    ELSE IF BumpIsValid(m) THEN
        [probed |-> <<"Loki", "Bump">>, src |-> "Bump", type |-> "Bump"]
    ELSE IF MtkIsValid(m) THEN
        [probed |-> <<"Loki", "Bump", "Mtk">>, src |-> "Mtk", type |-> "Mtk"]
    ELSE IF AndroidIsValid(m) THEN
        [probed |-> <<"Loki", "Bump", "Mtk", "Android">>,
         src |-> "Android", type |-> "Android"]
    ELSE IF SonyElfIsValid(m) THEN
        [probed |-> <<"Loki", "Bump", "Mtk", "Android", "SonyElf">>,
         src |-> "SonyElf", type |-> "SonyElf"]
    ELSE
        [probed |-> <<"Loki", "Bump", "Mtk", "Android", "SonyElf">>,
         src |-> "None", type |-> "None"]

LoadDispatch(m) ==
    IF LokiIsValid(m) THEN
        [probed |-> <<"Loki">>, src |-> "Loki", type |-> "Android"]
    ELSE IF BumpIsValid(m) THEN
        [probed |-> <<"Loki", "Bump">>, src |-> "Bump", type |-> "Bump"]
    ELSE IF MtkIsValid(m) THEN
        [probed |-> <<"Loki", "Bump", "Mtk">>, src |-> "Mtk", type |-> "Mtk"]
    ELSE IF AndroidIsValid(m) THEN
        [probed |-> <<"Loki", "Bump", "Mtk", "Android">>,
         src |-> "Android", type |-> "Android"]
    ELSE IF SonyElfIsValid(m) THEN
        [probed |-> <<"Loki", "Bump", "Mtk", "Android", "SonyElf">>,
         src |-> "SonyElf", type |-> "SonyElf"]
    ELSE
        [probed |-> <<"Loki", "Bump", "Mtk", "Android", "SonyElf">>,
         src |-> "None", type |-> "None"]


\* ------------------------------------------------------------------------
\* Input ZIPs, AutoPatchers and error codes
\* ------------------------------------------------------------------------
NoMarks == {}

\* The bytes of a file: an identity, a revision (0 = the original bytes,
\* +1 for each rewrite by a patcher or an encoder) and the format marks.
Bytes(id, marks) == [id |-> id, rev |-> 0, marks |-> marks]

Rewritten(d) == [d EXCEPT !.rev = @ + 1]

\* Entries an input ZIP may hold, in archive order
Catalog ==
    << [name |-> <<"system/build.prop">>, size |-> 100,
        data |-> Bytes("build.prop", NoMarks)],
       [name |-> UpdaterScript, size |-> 200,
        data |-> Bytes("updater-script", NoMarks)],
       [name |-> UpdateBinary, size |-> 300,
        data |-> Bytes("update-binary", NoMarks)],
       [name |-> UpdateBinaryOrig, size |-> 300,
        data |-> Bytes("update-binary.orig", NoMarks)],
       [name |-> BbWrapper, size |-> 50,
        data |-> Bytes("bb-wrapper.sh", NoMarks)],
       [name |-> InfoProp, size |-> 60,
        data |-> Bytes("info.prop", NoMarks)],
       [name |-> <<"boot", ".img">>, size |-> 8192,
        data |-> Bytes("boot.img", {"android", "cpio"})],
       [name |-> <<"ramdisk.cpio", ".gz">>, size |-> 4096,
        data |-> Bytes("ramdisk", {"cpio"})] >>

\* Input ZIPs: the non-empty selections of at most n catalog entries, in
\* catalog order
IndexSeqs(n) ==
    {s \in UNION {[1..k -> 1..Len(Catalog)] : k \in 1..n} :
        \A i \in 1..Len(s) : \A j \in 1..Len(s) : i < j => s[i] < s[j]}

ZipFiles(n) == {[i \in 1..Len(s) |-> Catalog[s[i]]] : s \in IndexSeqs(n)}

\* Input ZIPs with ramdisk entries: one that is a cpio archive, one that is
\* not, beside a boot image and a file the AutoPatchers claim
GzCatalog ==
    << Catalog[2], Catalog[7], Catalog[8],
       [name |-> <<"broken.cpio", ".gz">>, size |-> 4096,
        data |-> Bytes("broken", NoMarks)] >>

GzIndexSeqs(n) ==
    {s \in UNION {[1..k -> 1..Len(GzCatalog)] : k \in 1..n} :
        \A i \in 1..Len(s) : \A j \in 1..Len(s) : i < j => s[i] < s[j]}

GzZipFiles(n) ==
    {[i \in 1..Len(s) |-> GzCatalog[s[i]]] : s \in GzIndexSeqs(n)}

\* Input ZIPs with boot image extensions: a boot image, a Loki image of
\* exactly 30 MiB, an .img file that is no boot image, a boot image over
\* 30 MiB, beside a plain file, the installer and a file the AutoPatchers
\* claim
ImgCatalog ==
    << Catalog[1], Catalog[2], Catalog[3], Catalog[7],
       [name |-> <<"aboot", ".lok">>, size |-> MaxBootImageSize,
        data |-> Bytes("aboot.lok", {"loki", "cpio"})],
       [name |-> <<"logo", ".img">>, size |-> 4096,
        data |-> Bytes("logo.img", NoMarks)],
       [name |-> <<"system", ".img">>, size |-> MaxBootImageSize + 1,
        data |-> Bytes("system.img", {"android", "cpio"})] >>

ImgZipFiles(n) ==
    {[i \in 1..Len(s) |-> ImgCatalog[s[i]]] :
        s \in {t \in UNION {[1..k -> 1..Len(ImgCatalog)] : k \in 1..n} :
                  \A i \in 1..Len(t) : \A j \in 1..Len(t) :
                      i < j => t[i] < t[j]}}

\* Input ZIPs for the byte counts: an empty file the AutoPatchers claim,
\* the installer (claimed or copied raw), a plain file, a boot image, a
\* ramdisk that is a cpio archive and one that is not
ByteCatalog ==
    << [name |-> UpdaterScript, size |-> 0,
        data |-> Bytes("updater-script", NoMarks)],
       Catalog[3], Catalog[1], Catalog[7], Catalog[8], GzCatalog[4] >>

ByteZipFiles(n) ==
    {[i \in 1..Len(s) |-> ByteCatalog[s[i]]] :
        s \in {t \in UNION {[1..k -> 1..Len(ByteCatalog)] : k \in 1..n} :
                  \A i \in 1..Len(t) : \A j \in 1..Len(t) :
                      i < j => t[i] < t[j]}}

\* stats.totalSize of FileUtils::mzArchiveStats with no exclusions: the sum
\* of the uncompressed sizes of the entries
RECURSIVE totalSize(_)
totalSize(entries) ==
    IF entries = <<>> THEN 0
    ELSE Head(entries).size + totalSize(Tail(entries))

FileNames == {<<"r", ".", "z", "i", "p">>, <<"b", ".", "i", "m", "g">>}

\* FileInfo::romId of the patching jobs
DualRomId == <<"d", "u", "a", "l">>

\* Paths and ROM ids given to newFilePath: a stem of at most MaxStemLen
\* characters followed by a four-character extension
StemChars == {"a", ".", "_"}

Stems == UNION {[1..k -> StemChars] : k \in 0..MaxStemLen}

ZipPaths ==
    {stem \o ext : stem \in Stems, ext \in {DotZip, <<".", "Z", "I", "P">>}}

RomIds == {DualRomId, <<"p">>, <<"_", "1">>, <<"a", ".", "z">>}

\* std::string::insert(pos, str)
Insert(path, pos, str) ==
    SubSeq(path, 1, pos) \o str \o SubSeq(path, pos + 1, Len(path))

\* newFilePath with the ROM id inserted before the underscore
newFilePathIdFirst(filename, romId) ==
    LET WithUnderscore(path) == Insert(path, Len(path) - 4, <<"_">>)
    IN WithUnderscore(Insert(filename, Len(filename) - 4, romId))

\* MultiBootPatcher::newFilePath: "_" inserted four characters before the
\* end, then the ROM id four characters before the end of the result
newFilePath(filename, romId) ==
    LET WithRomId(path) == Insert(path, Len(path) - 4, romId)
    IN WithRomId(Insert(filename, Len(filename) - 4, <<"_">>))

\* AutoPatcher::existingFiles() of the two AutoPatchers patchZip creates
ExistingFilesChoices ==
    {[StandardPatcher |-> a, XposedPatcher |-> b] :
        a \in {{}, {UpdaterScript}}, b \in {{}, {UpdateBinary}}}

\* Data files added at finalization
MbtoolRecovery == Bytes("mbtool_recovery", NoMarks)
BbWrapperScript == Bytes("scripts/bb-wrapper.sh", NoMarks)
InfoPropText == Bytes("createInfoProp", NoMarks)

\* Error codes FileUtils::mzArchiveStats may return
StatsErrors == {"ArchiveReadOpenError", "ArchiveReadHeaderError"}

\* Error codes FileUtils::mzAddFile may return besides NoError
AddFileErrors == {"FileOpenError", "ArchiveWriteDataError"}

ErrorCodes ==
    {"NoError", "OnlyZipSupported", "AutoPatcherCreateError",
     "ArchiveWriteOpenError", "ArchiveReadOpenError", "ArchiveReadHeaderError",
     "ArchiveReadDataError", "ArchiveWriteDataError", "FileOpenError",
     "BootImageParseError", "RamdiskPatcherCreateError", "CpioError",
     "PatcherError", "PatchingCancelled", "BootImageCreateError"}

\* ------------------------------------------------------------------------
\* Bytes of a boot image.  A byte string is a sequence of runs: n bytes of
\* kind t carrying the value v (the number in a 32-bit field, the identity
\* of a payload or of a string), and for a SHA-1 digest the hashed stream h.
\* Runs of zero bytes and of one payload merge, so equal byte strings are
\* equal sequences.
\* ------------------------------------------------------------------------
MtkHeaderSize == 512
BootImageHeaderSize == 608
ShaDigestSize == 20
BootIdSize == 32
BootNameSize == 16
BootArgsSize == 512
HeaderSearchStep == 512
DefaultPageSize == 2048

AllowedPageSizesAny == {1000, 2048, 4096, 8192, 16384, 32768, 65536, 131072}

AllowedPageSizes == {2048, 4096, 8192, 16384, 32768, 65536, 131072}

Run(t, v, n) == [t |-> t, v |-> v, n |-> n, h |-> <<>>]

Mergeable(a, b) == a.t = b.t /\ a.v = b.v /\ a.t \in {"zero", "data"}

RECURSIVE Norm(_)
Norm(b) ==
    IF b = <<>> THEN <<>>
    ELSE IF Head(b).n = 0 THEN Norm(Tail(b))
    ELSE LET r == Norm(Tail(b))
         IN IF r # <<>> /\ Mergeable(Head(b), Head(r))
            THEN <<[Head(b) EXCEPT !.n = @ + Head(r).n]>> \o Tail(r)
            ELSE <<Head(b)>> \o r

\* Consecutive writes through dataPtr, consecutive SHA_update calls
Cat(a, b) == Norm(a \o b)

RECURSIVE CatAll(_)
CatAll(s) == IF s = <<>> THEN <<>> ELSE Cat(Head(s), CatAll(Tail(s)))

\* BinData::size
RECURSIVE Size(_)
Size(b) == IF b = <<>> THEN 0 ELSE Head(b).n + Size(Tail(b))

\* The first n bytes (setDataCopy(data, n), reallocate(n))
RECURSIVE Take(_, _)
Take(b, n) ==
    IF n <= 0 \/ b = <<>> THEN <<>>
    ELSE IF Head(b).n <= n
         THEN <<Head(b)>> \o Take(Tail(b), n - Head(b).n)
         ELSE <<[Head(b) EXCEPT !.n = n]>>

\* The bytes from offset n on (data + n, memmove to the front)
RECURSIVE Drop(_, _)
Drop(b, n) ==
    IF n <= 0 \/ b = <<>> THEN b
    ELSE IF Head(b).n <= n THEN Drop(Tail(b), n - Head(b).n)
         ELSE <<[Head(b) EXCEPT !.n = @ - n]>> \o Tail(b)

\* The n bytes at offset off
Slice(b, off, n) == Take(Drop(b, off), n)

\* memset(ptr, 0, n)
Zeros(n) == Norm(<<Run("zero", 0, n)>>)

\* The four bytes of a little-endian uint32_t
U32(v) == <<Run("u32", v, 4)>>

\* The bytes of payload id, n of them
Data(id, n) == Norm(<<Run("data", id, n)>>)

\* The uint32_t at offset off; zero bytes read as 0
U32At(b, off) ==
    LET Value(s) ==
            IF Len(s) = 1 /\ s[1].t = "u32" /\ s[1].n = 4 THEN s[1].v ELSE 0
    IN Value(Slice(b, off, 4))

\* A NUL-terminated string in a char array of n bytes: 0 is the empty
\* string (all zero bytes), any other number names a non-empty string
Str(v, n) == IF v = 0 THEN Zeros(n) ELSE <<Run("str", v, n)>>

StrAt(b, off, n) ==
    LET Value(s) ==
            IF Len(s) = 1 /\ s[1].t = "str" /\ s[1].n = n THEN s[1].v ELSE 0
    IN Value(Slice(b, off, n))

\* SHA_init, SHA_update over stream, SHA_final: the 20-byte digest
Sha1(stream) ==
    <<[t |-> "sha1", v |-> 0, n |-> ShaDigestSize, h |-> stream]>>

\* BOOT_MAGIC "ANDROID!" and MTK_MAGIC
BootMagic == <<Run("boot_magic", 0, 8)>>
MtkMagic == <<Run("mtk_magic", 0, 4)>>

\* struct MtkHeader: magic[4], size, type[32], unused[472]
MtkHeader(size, type) ==
    MtkMagic \o U32(size)
        \o <<Run("mtk_type", type, 32), Run("mtk_unused", 0, 472)>>

\* mtkHdr->size, and the assignment to it
MtkHeaderSizeField(hdr) == U32At(hdr, 4)
SetMtkHeaderSize(hdr, size) == Take(hdr, 4) \o U32(size) \o Drop(hdr, 8)

\* skipPadding(itemSize, pageSize): bytes up to the next page boundary
skipPadding(itemSize, pageSize) ==
    IF pageSize <= 0 THEN 0
    ELSE (pageSize - (itemSize % pageSize)) % pageSize

\* struct BootImageHeader, packed: magic[8], ten uint32_t, name[16],
\* cmdline[512], id[32]
HeaderBytes(hdr) ==
    CatAll(<<BootMagic,
             U32(hdr.kernel_size), U32(hdr.kernel_addr),
             U32(hdr.ramdisk_size), U32(hdr.ramdisk_addr),
             U32(hdr.second_size), U32(hdr.second_addr),
             U32(hdr.tags_addr), U32(hdr.page_size),
             U32(hdr.dt_size), U32(hdr.unused),
             Str(hdr.name, BootNameSize), Str(hdr.cmdline, BootArgsSize),
             hdr.id>>)

\* reinterpret_cast<const BootImageHeader *>(&data[headerIndex])
HeaderAt(b, idx) ==
    [kernel_size |-> U32At(b, idx + 8), kernel_addr |-> U32At(b, idx + 12),
     ramdisk_size |-> U32At(b, idx + 16), ramdisk_addr |-> U32At(b, idx + 20),
     second_size |-> U32At(b, idx + 24), second_addr |-> U32At(b, idx + 28),
     tags_addr |-> U32At(b, idx + 32), page_size |-> U32At(b, idx + 36),
     dt_size |-> U32At(b, idx + 40), unused |-> U32At(b, idx + 44),
     name |-> StrAt(b, idx + 48, BootNameSize),
     cmdline |-> StrAt(b, idx + 64, BootArgsSize),
     id |-> Slice(b, idx + 576, BootIdSize)]

\* findHeader(data, size, 512, &headerIndex): the offset of the first
\* ANDROID! magic at offset 0 or 512, -1 if there is none
findHeader(b) ==
    IF Slice(b, 0, 8) = BootMagic THEN 0
    ELSE IF Slice(b, HeaderSearchStep, 8) = BootMagic THEN HeaderSearchStep
    ELSE -1

\* ------------------------------------------------------------------------
\* BootImageIntermediate
\* ------------------------------------------------------------------------
I10eInit ==
    [cmdline |-> 0, boardName |-> 0,
     kernelAddr |-> 0, ramdiskAddr |-> 0, secondAddr |-> 0, tagsAddr |-> 0,
     iplAddr |-> 0, rpmAddr |-> 0, appsblAddr |-> 0, hdrEntrypoint |-> 0,
     hdrKernelSize |-> 0, hdrRamdiskSize |-> 0, hdrSecondSize |-> 0,
     hdrDtSize |-> 0, hdrUnused |-> 0, hdrId |-> Zeros(BootIdSize),
     pageSize |-> DefaultPageSize,
     kernelImage |-> <<>>, ramdiskImage |-> <<>>, secondImage |-> <<>>,
     dtImage |-> <<>>, abootImage |-> <<>>,
     mtkKernelHdr |-> <<>>, mtkRamdiskHdr |-> <<>>,
     iplImage |-> <<>>, rpmImage |-> <<>>, appsblImage |-> <<>>,
     sonySinImage |-> <<>>, sonySinHdr |-> <<>>]

\* AndroidFormat::loadImage: the header is found, the page size is an
\* allowed one and every declared payload lies inside the buffer; each
\* payload is copied out and its cached size is the declared size
AndroidLoadImage(i, b) ==
    LET Load(idx, hdr) ==
            LET page == hdr.page_size
                kPos == idx + BootImageHeaderSize
                            + skipPadding(BootImageHeaderSize, page)
                rPos == kPos + hdr.kernel_size
                             + skipPadding(hdr.kernel_size, page)
                sPos == rPos + hdr.ramdisk_size
                             + skipPadding(hdr.ramdisk_size, page)
                dPos == sPos + hdr.second_size
                             + skipPadding(hdr.second_size, page)
            IN IF \/ idx < 0
                  \/ Size(b) < idx + BootImageHeaderSize
                  \/ page \notin AllowedPageSizes
                  \/ Size(b) < dPos + hdr.dt_size
               THEN [ok |-> FALSE, i10e |-> i]
               ELSE [ok |-> TRUE,
                     i10e |-> [i EXCEPT
                         !.cmdline = hdr.cmdline, !.boardName = hdr.name,
                         !.kernelAddr = hdr.kernel_addr,
                         !.ramdiskAddr = hdr.ramdisk_addr,
                         !.secondAddr = hdr.second_addr,
                         !.tagsAddr = hdr.tags_addr,
                         !.pageSize = page, !.hdrUnused = hdr.unused,
                         !.hdrId = hdr.id,
                         !.hdrKernelSize = hdr.kernel_size,
                         !.hdrRamdiskSize = hdr.ramdisk_size,
                         !.hdrSecondSize = hdr.second_size,
                         !.hdrDtSize = hdr.dt_size,
                         !.kernelImage = Slice(b, kPos, hdr.kernel_size),
                         !.ramdiskImage = Slice(b, rPos, hdr.ramdisk_size),
                         !.secondImage = Slice(b, sPos, hdr.second_size),
                         !.dtImage = Slice(b, dPos, hdr.dt_size)]]
        At(idx) == Load(idx, HeaderAt(b, idx))
    IN At(findHeader(b))

\* ------------------------------------------------------------------------
\* MtkFormat
\* ------------------------------------------------------------------------

\* MtkFormat::isValid with the magic tested whatever the declared size
MtkFormatIsValidAnySize(b) ==
    LET Check(headerIndex, size, hdr) ==
            LET kPos == headerIndex + BootImageHeaderSize
                            + skipPadding(BootImageHeaderSize, hdr.page_size)
                rPos == kPos + hdr.kernel_size
                             + skipPadding(hdr.kernel_size, hdr.page_size)
            IN IF headerIndex < 0 THEN FALSE
               ELSE IF size < headerIndex + BootImageHeaderSize THEN FALSE
               ELSE IF kPos + hdr.kernel_size > size THEN FALSE
               ELSE IF Slice(b, kPos, 4) = MtkMagic THEN TRUE
               ELSE IF rPos + hdr.ramdisk_size > size THEN FALSE
               ELSE IF Slice(b, rPos, 4) = MtkMagic THEN TRUE
               ELSE FALSE
        At(headerIndex) ==
            Check(headerIndex, Size(b), HeaderAt(b, headerIndex))
    IN At(findHeader(b))

\* MtkFormat::isValid
MtkFormatIsValid(b) ==
    LET Check(headerIndex, size, hdr) ==
            LET kPos == headerIndex + BootImageHeaderSize
                            + skipPadding(BootImageHeaderSize, hdr.page_size)
                rPos == kPos + hdr.kernel_size
                             + skipPadding(hdr.kernel_size, hdr.page_size)
            IN IF headerIndex < 0 THEN FALSE
               ELSE IF size < headerIndex + BootImageHeaderSize THEN FALSE
               ELSE IF kPos + hdr.kernel_size > size THEN FALSE
               ELSE IF /\ hdr.kernel_size >= MtkHeaderSize
                       /\ Slice(b, kPos, 4) = MtkMagic THEN TRUE
               ELSE IF rPos + hdr.ramdisk_size > size THEN FALSE
               ELSE IF /\ hdr.ramdisk_size >= MtkHeaderSize
                       /\ Slice(b, rPos, 4) = MtkMagic THEN TRUE
               ELSE FALSE
        At(headerIndex) ==
            Check(headerIndex, Size(b), HeaderAt(b, headerIndex))
    IN At(findHeader(b))

\* uint32_t values at their full width: <<hi, lo>> stands for
\* hi * 2^16 + lo, both halves in 0..2^16 - 1
Half == 65536

ToU32(n) == <<(n \div Half) % Half, n % Half>>

\* uint32_t addition, modulo 2^32
Add32(a, b) ==
    LET lo == a[2] + b[2]
    IN <<(a[1] + b[1] + lo \div Half) % Half, lo % Half>>

\* a > n and a >= n for a uint32_t a and a std::size_t n below 2^31
Gt32(a, n) ==
    a[1] > n \div Half \/ (a[1] = n \div Half /\ a[2] > n % Half)

Ge32(a, n) ==
    a[1] > n \div Half \/ (a[1] = n \div Half /\ a[2] >= n % Half)

\* skipPadding on a uint32_t item size, for a page size that divides 2^16
skipPadding32(itemSize, pageSize) ==
    ToU32(skipPadding(itemSize[2] % pageSize, pageSize))

\* MtkFormat::isValid from "uint32_t pos = 0" on, with pos and the header
\* fields as uint32_t.  kernelMagic and ramdiskMagic tell whether memcmp
\* finds MTK_MAGIC at the offset it is given; reads holds the offsets of the
\* MtkHeader structures whose magic is read
MtkFormatIsValid32(headerIndex, size, hdr, kernelMagic, ramdiskMagic) ==
    LET Ramdisk(pos) ==
            IF Gt32(Add32(pos, hdr.ramdisk_size), size)
            THEN [valid |-> FALSE, reads |-> <<>>]
            ELSE IF Ge32(hdr.ramdisk_size, MtkHeaderSize)
            THEN [valid |-> ramdiskMagic, reads |-> <<pos>>]
            ELSE [valid |-> FALSE, reads |-> <<>>]
        AfterKernel(pos, r) ==
            [valid |-> r.valid, reads |-> <<pos>> \o r.reads]
        Kernel(pos) ==
            LET next == Add32(Add32(pos, hdr.kernel_size),
                              skipPadding32(hdr.kernel_size, hdr.page_size))
            IN IF Gt32(Add32(pos, hdr.kernel_size), size)
               THEN [valid |-> FALSE, reads |-> <<>>]
               ELSE IF Ge32(hdr.kernel_size, MtkHeaderSize)
               THEN IF kernelMagic THEN [valid |-> TRUE, reads |-> <<pos>>]
                    ELSE AfterKernel(pos, Ramdisk(next))
               ELSE Ramdisk(next)
    IN Kernel(Add32(Add32(ToU32(headerIndex), ToU32(BootImageHeaderSize)),
                    skipPadding32(ToU32(BootImageHeaderSize),
                                  hdr.page_size)))

\* The kernel block of MtkFormat::loadImage with every size mismatch left
\* to a warning
StripKernelLenient(i) ==
    IF /\ i.hdrKernelSize >= MtkHeaderSize
       /\ Take(i.kernelImage, 4) = MtkMagic
    THEN [ok |-> TRUE,
          i10e |-> [i EXCEPT
              !.mtkKernelHdr =
                  SetMtkHeaderSize(Take(i.kernelImage, MtkHeaderSize), 0),
              !.kernelImage = Drop(i.kernelImage, MtkHeaderSize)]]
    ELSE [ok |-> TRUE, i10e |-> i]

\* The kernel block of MtkFormat::loadImage: ok is FALSE where it returns
\* false, else the header is moved out of the payload
StripKernel(i) ==
    IF /\ i.hdrKernelSize >= MtkHeaderSize
       /\ Take(i.kernelImage, 4) = MtkMagic
    THEN LET expected == MtkHeaderSize + MtkHeaderSizeField(i.kernelImage)
             actual == Size(i.kernelImage)
         IN IF actual < expected THEN [ok |-> FALSE, i10e |-> i]
            ELSE [ok |-> TRUE,
                  i10e |-> [i EXCEPT
                      !.mtkKernelHdr =
                          SetMtkHeaderSize(
                              Take(i.kernelImage, MtkHeaderSize), 0),
                      !.kernelImage = Drop(i.kernelImage, MtkHeaderSize)]]
    ELSE [ok |-> TRUE, i10e |-> i]

\* The ramdisk block of MtkFormat::loadImage
StripRamdisk(i) ==
    IF /\ i.hdrRamdiskSize >= MtkHeaderSize
       /\ Take(i.ramdiskImage, 4) = MtkMagic
    THEN LET expected == MtkHeaderSize + MtkHeaderSizeField(i.ramdiskImage)
             actual == Size(i.ramdiskImage)
         IN IF actual # expected THEN [ok |-> FALSE, i10e |-> i]
            ELSE [ok |-> TRUE,
                  i10e |-> [i EXCEPT
                      !.mtkRamdiskHdr =
                          SetMtkHeaderSize(
                              Take(i.ramdiskImage, MtkHeaderSize), 0),
                      !.ramdiskImage = Drop(i.ramdiskImage, MtkHeaderSize)]]
    ELSE [ok |-> TRUE, i10e |-> i]

\* MtkFormat::loadImage
MtkLoadImage(i, b) ==
    LET Ramdisk(k) == IF ~k.ok THEN k ELSE StripRamdisk(k.i10e)
        Kernel(a) == IF ~a.ok THEN a ELSE Ramdisk(StripKernel(a.i10e))
    IN Kernel(AndroidLoadImage(i, b))

\* The sizes createImage writes into the header
HeaderSizesCached(i) ==
    [kernel_size |-> i.hdrKernelSize, ramdisk_size |-> i.hdrRamdiskSize,
     second_size |-> i.hdrSecondSize, dt_size |-> i.hdrDtSize]

HeaderSizes(i) ==
    [kernel_size |-> Size(i.kernelImage) + Size(i.mtkKernelHdr),
     ramdisk_size |-> Size(i.ramdiskImage) + Size(i.mtkRamdiskHdr),
     second_size |-> i.hdrSecondSize, dt_size |-> i.hdrDtSize]

\* updateSha1Hash: the value it leaves in hdr->id.  mtkKernelHdr and
\* mtkRamdiskHdr are the bytes of the headers passed, <<>> for nullptr
updateSha1HashStoredHdr(hdr, i, mtkKernelHdr, mtkRamdiskHdr, kernelSize, ramdiskSize) ==
    Cat(Sha1(CatAll(<<
            i.mtkKernelHdr, i.kernelImage, U32(kernelSize),
            i.mtkRamdiskHdr, i.ramdiskImage, U32(ramdiskSize),
            i.secondImage, U32(hdr.second_size),
            IF i.dtImage # <<>> THEN Cat(i.dtImage, U32(hdr.dt_size))
            ELSE <<>> >>)),
        Zeros(BootIdSize - ShaDigestSize))

updateSha1Hash(hdr, i, mtkKernelHdr, mtkRamdiskHdr, kernelSize, ramdiskSize) ==
    Cat(Sha1(CatAll(<<
            mtkKernelHdr, i.kernelImage, U32(kernelSize),
            mtkRamdiskHdr, i.ramdiskImage, U32(ramdiskSize),
            i.secondImage, U32(hdr.second_size),
            IF i.dtImage # <<>> THEN Cat(i.dtImage, U32(hdr.dt_size))
            ELSE <<>> >>)),
        Zeros(BootIdSize - ShaDigestSize))

\* The padding createImage writes after the kernel
KernelPaddingNoHdr(i, kernelSize) == skipPadding(Size(i.kernelImage),
                                                  i.pageSize)

KernelPadding(i, kernelSize) == skipPadding(kernelSize, i.pageSize)

\* The local MtkHeader createImage writes: a copy of the stored header
\* with the stored size field left as it is
LocalMtkHeaderStale(stored, payload) == stored

\* The local MtkHeader createImage writes: a copy of the stored header
\* with size set to the length of the payload
LocalMtkHeader(stored, payload) == SetMtkHeaderSize(stored, Size(payload))

\* MtkFormat::createImage.  dataOut is the caller's buffer as it is given,
\* data the same buffer at the return; resized is the result of
\* data.resize(imageSize) on the local buffer
MtkCreateImage(i, dataOut, resized) ==
    LET hasKernelHdr == i.mtkKernelHdr # <<>>
        hasRamdiskHdr == i.mtkRamdiskHdr # <<>>
        sizes == HeaderSizes(i)
        kernelSize == sizes.kernel_size
        ramdiskSize == sizes.ramdisk_size
        mtkKernelHdr ==
            IF hasKernelHdr
            THEN LocalMtkHeader(i.mtkKernelHdr, i.kernelImage) ELSE <<>>
        mtkRamdiskHdr ==
            IF hasRamdiskHdr
            THEN LocalMtkHeader(i.mtkRamdiskHdr, i.ramdiskImage) ELSE <<>>
        hdr0 == [kernel_size |-> kernelSize, kernel_addr |-> i.kernelAddr,
                 ramdisk_size |-> ramdiskSize,
                 ramdisk_addr |-> i.ramdiskAddr,
                 second_size |-> sizes.second_size,
                 second_addr |-> i.secondAddr,
                 tags_addr |-> i.tagsAddr, page_size |-> i.pageSize,
                 dt_size |-> sizes.dt_size, unused |-> i.hdrUnused,
                 name |-> i.boardName, cmdline |-> i.cmdline,
                 id |-> Zeros(BootIdSize)]
        hdr == [hdr0 EXCEPT !.id =
                   updateSha1Hash(hdr0, i, mtkKernelHdr, mtkRamdiskHdr,
                                  kernelSize, ramdiskSize)]
        page == hdr.page_size
    IN IF i.pageSize \notin AllowedPageSizes
       THEN [ok |-> FALSE, data |-> dataOut]
       ELSE IF hasKernelHdr /\ Size(i.mtkKernelHdr) # MtkHeaderSize
       THEN [ok |-> FALSE, data |-> dataOut]
       ELSE IF hasRamdiskHdr /\ Size(i.mtkRamdiskHdr) # MtkHeaderSize
       THEN [ok |-> FALSE, data |-> dataOut]
       ELSE IF ~resized
       THEN [ok |-> FALSE, data |-> dataOut]
       ELSE [ok |-> TRUE,
             data |-> CatAll(<<
                 HeaderBytes(hdr),
                 Zeros(skipPadding(BootImageHeaderSize, page)),
                 mtkKernelHdr, i.kernelImage,
                 Zeros(KernelPadding(i, kernelSize)),
                 mtkRamdiskHdr, i.ramdiskImage,
                 Zeros(skipPadding(ramdiskSize, page)),
                 IF i.secondImage # <<>>
                 THEN Cat(i.secondImage,
                          Zeros(skipPadding(Size(i.secondImage), page)))
                 ELSE <<>>,
                 IF i.dtImage # <<>>
                 THEN Cat(i.dtImage,
                          Zeros(skipPadding(Size(i.dtImage), page)))
                 ELSE <<>> >>)]

\* ------------------------------------------------------------------------
\* BootImage setters and operator==
\* ------------------------------------------------------------------------
ImageSetters ==
    {"setKernelImage", "setRamdiskImage", "setSecondBootloaderImage",
     "setDeviceTreeImage"}

BlobSetters ==
    {"setAbootImage", "setKernelMtkHeader", "setRamdiskMtkHeader",
     "setIplImage", "setRpmImage", "setAppsblImage", "setSinImage",
     "setSinHeader"}

NumberSetters ==
    {"setBoardName", "setKernelCmdline", "setPageSize", "setKernelAddress",
     "setRamdiskAddress", "setSecondBootloaderAddress",
     "setKernelTagsAddress", "setIplAddress", "setRpmAddress",
     "setAppsblAddress", "setEntrypointAddress"}

\* The body of setter s called with argument v
ApplySetter(i, s, v) ==
    CASE s = "setKernelImage" ->
             [i EXCEPT !.hdrKernelSize = Size(v), !.kernelImage = v]
      [] s = "setRamdiskImage" ->
             [i EXCEPT !.hdrRamdiskSize = Size(v), !.ramdiskImage = v]
      [] s = "setSecondBootloaderImage" ->
             [i EXCEPT !.hdrSecondSize = Size(v), !.secondImage = v]
      [] s = "setDeviceTreeImage" ->
             [i EXCEPT !.hdrDtSize = Size(v), !.dtImage = v]
      [] s = "setAbootImage" -> [i EXCEPT !.abootImage = v]
      [] s = "setKernelMtkHeader" -> [i EXCEPT !.mtkKernelHdr = v]
      [] s = "setRamdiskMtkHeader" -> [i EXCEPT !.mtkRamdiskHdr = v]
      [] s = "setIplImage" -> [i EXCEPT !.iplImage = v]
      [] s = "setRpmImage" -> [i EXCEPT !.rpmImage = v]
      [] s = "setAppsblImage" -> [i EXCEPT !.appsblImage = v]
      [] s = "setSinImage" -> [i EXCEPT !.sonySinImage = v]
      [] s = "setSinHeader" -> [i EXCEPT !.sonySinHdr = v]
      [] s = "setBoardName" -> [i EXCEPT !.boardName = v]
      [] s = "setKernelCmdline" -> [i EXCEPT !.cmdline = v]
      [] s = "setPageSize" -> [i EXCEPT !.pageSize = v]
      [] s = "setKernelAddress" -> [i EXCEPT !.kernelAddr = v]
      [] s = "setRamdiskAddress" -> [i EXCEPT !.ramdiskAddr = v]
      [] s = "setSecondBootloaderAddress" -> [i EXCEPT !.secondAddr = v]
      [] s = "setKernelTagsAddress" -> [i EXCEPT !.tagsAddr = v]
      [] s = "setIplAddress" -> [i EXCEPT !.iplAddr = v]
      [] s = "setRpmAddress" -> [i EXCEPT !.rpmAddr = v]
      [] s = "setAppsblAddress" -> [i EXCEPT !.appsblAddr = v]
      [] s = "setEntrypointAddress" -> [i EXCEPT !.hdrEntrypoint = v]

\* BootImage::operator== on two objects [type, i10e]
BootImageEquals(x, y) ==
    LET a == x.i10e
        b == y.i10e
    IN /\ a.kernelImage = b.kernelImage
       /\ a.ramdiskImage = b.ramdiskImage
       /\ a.secondImage = b.secondImage
       /\ a.dtImage = b.dtImage
       /\ a.abootImage = b.abootImage
       /\ a.mtkKernelHdr = b.mtkKernelHdr
       /\ a.mtkRamdiskHdr = b.mtkRamdiskHdr
       /\ a.iplImage = b.iplImage
       /\ a.rpmImage = b.rpmImage
       /\ a.appsblImage = b.appsblImage
       /\ a.sonySinImage = b.sonySinImage
       /\ a.sonySinHdr = b.sonySinHdr
       /\ a.hdrKernelSize = b.hdrKernelSize
       /\ a.kernelAddr = b.kernelAddr
       /\ a.hdrRamdiskSize = b.hdrRamdiskSize
       /\ a.ramdiskAddr = b.ramdiskAddr
       /\ a.hdrSecondSize = b.hdrSecondSize
       /\ a.secondAddr = b.secondAddr
       /\ a.tagsAddr = b.tagsAddr
       /\ a.pageSize = b.pageSize
       /\ a.hdrDtSize = b.hdrDtSize
       /\ a.hdrId = b.hdrId
       /\ a.boardName = b.boardName
       /\ a.cmdline = b.cmdline

\* ------------------------------------------------------------------------
\* Boot images given to the codec.  A section is its bytes as laid out in
\* the file: a payload with no MTK header ("none"), with a full one whose
\* size field is decl ("full"), or beginning with the bare MTK magic
\* ("short").
\* ------------------------------------------------------------------------
Section(hdr, decl, len) == [hdr |-> hdr, decl |-> decl, len |-> len]

SectionBytes(s, id, type) ==
    CASE s.hdr = "none" -> Data(id, s.len)
      [] s.hdr = "full" -> Cat(MtkHeader(s.decl, type), Data(id, s.len))
      [] s.hdr = "short" -> Cat(MtkMagic, Data(id, s.len))

KernelSections ==
    {Section("none", 0, 8), Section("full", 8, 8), Section("full", 8, 12),
     Section("full", 16, 8), Section("full", 1536, 1536),
     Section("short", 0, 8)}

RamdiskSections ==
    {Section("none", 0, 8), Section("full", 8, 8), Section("full", 8, 12),
     Section("full", 16, 8), Section("short", 0, 8)}

ImageDescs ==
    [kernel : KernelSections, ramdisk : RamdiskSections,
     second : {0, 4}, dt : {0, 4}, goodId : BOOLEAN, unused : {0},
     keep : {"all", "kernel", "header", "nothing"}]

\* The id mkbootimg stores: SHA-1 of kernel, kernel_size, ramdisk,
\* ramdisk_size, second, second_size, and dt, dt_size when there is a dt
MkbootimgId(k, r, s, d) ==
    Cat(Sha1(CatAll(<<k, U32(Size(k)), r, U32(Size(r)), s, U32(Size(s)),
                      IF d # <<>> THEN Cat(d, U32(Size(d))) ELSE <<>> >>)),
        Zeros(BootIdSize - ShaDigestSize))

\* The file a descriptor stands for, with page size 2048; keep tells where
\* the buffer ends: after the last section, after the kernel section, after
\* the header, or at once
ImageBytes(d) ==
    LET page == DefaultPageSize
        k == SectionBytes(d.kernel, 1, 1)
        r == SectionBytes(d.ramdisk, 2, 2)
        s == Data(3, d.second)
        t == Data(4, d.dt)
        hdr == [kernel_size |-> Size(k), kernel_addr |-> 0,
                ramdisk_size |-> Size(r), ramdisk_addr |-> 0,
                second_size |-> Size(s), second_addr |-> 0,
                tags_addr |-> 0, page_size |-> page,
                dt_size |-> Size(t), unused |-> d.unused,
                name |-> 0, cmdline |-> 0,
                id |-> IF d.goodId THEN MkbootimgId(k, r, s, t)
                       ELSE Data(9, BootIdSize)]
        kEnd == BootImageHeaderSize + skipPadding(BootImageHeaderSize, page)
                    + Size(k) + skipPadding(Size(k), page)
        all == CatAll(<<HeaderBytes(hdr),
                        Zeros(skipPadding(BootImageHeaderSize, page)),
                        k, Zeros(skipPadding(Size(k), page)),
                        r, Zeros(skipPadding(Size(r), page)),
                        s, Zeros(skipPadding(Size(s), page)),
                        t, Zeros(skipPadding(Size(t), page))>>)
    IN CASE d.keep = "all" -> all
         [] d.keep = "kernel" -> Take(all, kEnd)
         [] d.keep = "header" -> Take(all, BootImageHeaderSize)
         [] d.keep = "nothing" -> <<>>

\* ------------------------------------------------------------------------
\* State
\* ------------------------------------------------------------------------
VARIABLES
    job,        \* FileInfo and collaborators of the patcher: filename,
                \* entries of the source ZIP, existingFiles per AutoPatcher
    impl,       \* MultiBootPatcher::Impl and the locals of the running call
    cancelled,  \* MultiBootPatcher::Impl::cancelled, written by any thread
    hist,       \* observations of the running patchFile call
    bi          \* a BootImage object (BootImage::Impl) and its last calls

vars == <<job, impl, cancelled, hist, bi>>

\* uint64_t values: <<a, b, c, d>> stands for
\* ((a * 2^16 + b) * 2^16 + c) * 2^16 + d, every part in 0..2^16 - 1
Zero64 == <<0, 0, 0, 0>>

\* A std::size_t or uint64_t value below 2^31
ToU64(n) == <<0, 0, (n \div Half) % Half, n % Half>>

\* uint64_t addition, modulo 2^64
Add64(x, y) ==
    LET d == x[4] + y[4]
        c == x[3] + y[3] + d \div Half
        b == x[2] + y[2] + c \div Half
        a == x[1] + y[1] + b \div Half
    IN <<a % Half, b % Half, c % Half, d % Half>>

\* uint64_t subtraction, modulo 2^64
Sub64(x, y) ==
    Add64(Add64(x, <<Half - 1 - y[1], Half - 1 - y[2],
                     Half - 1 - y[3], Half - 1 - y[4]>>),
          <<0, 0, 0, 1>>)

\* x <= y on uint64_t
Le64(x, y) ==
    \/ x = y
    \/ \E k \in 1..4 : x[k] < y[k] /\ \A j \in 1..(k - 1) : x[j] = y[j]

\* data.size() of an entry read into memory, at mzAddFile: the size the
\* entry had if its bytes were left alone; a re-encoded boot image is
\* padded to one more page, a rebuilt ramdisk is an eighth shorter
dataSize(e, data) ==
    IF data = e.data THEN e.size
    ELSE IF ends_with(e.name, ".gz") THEN e.size - e.size \div 8
    ELSE e.size + DefaultPageSize

\* The update of maxBytes that never lowers it
growMaxBytesOnly(maxBytes, size, uncompressed_size) ==
    IF size >= uncompressed_size
    THEN Add64(maxBytes, ToU64(size - uncompressed_size))
    ELSE maxBytes

\* maxBytes += (data.size() - fi.uncompressed_size)
growMaxBytes(maxBytes, size, uncompressed_size) ==
    Add64(maxBytes, Sub64(ToU64(size), ToU64(uncompressed_size)))

ImplInit ==
    [pc |-> "idle", error |-> "Unset", ret |-> FALSE,
     zInput |-> "null", zOutput |-> "null",
     autoPatchers |-> <<>>, liveAps |-> {},
     exclude |-> {}, idx |-> 0, files |-> 0, maxFiles |-> 0,
     bytes |-> Zero64, maxBytes |-> Zero64,
     data |-> Bytes("none", NoMarks), rdFor |-> "none",
     ap |-> 1, todo |-> {},
     output |-> <<>>, tempFiles |-> {},
     tempCreated |-> FALSE, tempExists |-> FALSE,
     assertFailed |-> FALSE, newPath |-> <<>>]

\* No ramdisk patcher asked for: the ids given to createRamdiskPatcher, the
\* patchers whose patchRamdisk ran, the patchers destroyed
NoRp == [tried |-> <<>>, ran |-> <<>>, destroyed |-> <<>>]

HistInit ==
    [doneAfterCancel |-> 0, ranZip |-> FALSE, zipRet |-> FALSE,
     zipErr |-> "Unset", flagAtZipEnd |-> FALSE, flagAtReturn |-> FALSE,
     setInZip |-> FALSE, seen |-> FALSE, writtenAfterSeen |-> 0,
     again |-> FALSE, rd |-> "none", biFailed |-> "none",
     filesCb |-> <<>>, rp |-> NoRp, apFailed |-> 0, addFailed |-> FALSE,
     handled |-> <<>>]

\* No file loaded yet
NoDesc ==
    [kernel |-> Section("none", 0, 0), ramdisk |-> Section("none", 0, 0),
     second |-> 0, dt |-> 0, goodId |-> FALSE, unused |-> 0,
     keep |-> "all"]

\* No buffer given to MtkFormat::isValid yet
NoProbe ==
    [size |-> 0, headerIndex |-> 0, page_size |-> DefaultPageSize,
     kernel_size |-> <<0, 0>>, ramdisk_size |-> <<0, 0>>, called |-> FALSE]

\* i10e is BootImage::Impl::i10e; desc, valid, mtkLoaded record the file
\* given to load, the verdict of MtkFormat::isValid and the result of load;
\* created and image the result of create and the bytes it returned; other
\* is a second BootImage and eq the last result of operator==
BiInit ==
    [type |-> "Android", sourceType |-> "Unset", loaded |-> "no",
     marks |-> NoMarks, probed |-> <<>>, decoder |-> "None",
     encoder |-> "None", targetSet |-> FALSE,
     i10e |-> I10eInit, desc |-> NoDesc, valid |-> FALSE,
     mtkLoaded |-> "no", created |-> "no", image |-> <<>>,
     dataOut |-> <<>>, edits |-> 0,
     other |-> [type |-> "Android", i10e |-> I10eInit], eq |-> "none",
     probe |-> NoProbe, reads |-> <<>>]

\* A patcher with a FileInfo set, before any patchFile call
Init ==
    /\ job \in [filename : FileNames, entries : ZipFiles(MaxEntries),
                existingFiles : ExistingFilesChoices, romId : {DualRomId}]
    /\ impl = ImplInit
    /\ cancelled \in BOOLEAN
    /\ hist = HistInit
    /\ bi = BiInit


\* ------------------------------------------------------------------------
\* MultiBootPatcher: helpers
\* ------------------------------------------------------------------------
N == Len(job.entries)

CurEntry == job.entries[impl.idx]

\* A unit of work (an entry of pass 1, an AutoPatcher run, a file of pass 2,
\* a finalization entry) completes; count it if the flag is set by then.
UnitDone(h) ==
    IF cancelled THEN [h EXCEPT !.doneAfterCancel = @ + 1] ELSE h

\* An entry reaches the output ZIP; count it if a poll has already read the
\* flag as set during this call.
Written(h) ==
    IF h.seen THEN [h EXCEPT !.writtenAfterSeen = @ + 1] ELSE h

\* A poll of the flag: "if (cancelled) return false;" leading to onCancel,
\* falling through to next otherwise
Poll(here, next, onCancel) ==
    /\ impl.pc = here
    /\ impl' = [impl EXCEPT !.pc = IF cancelled THEN onCancel ELSE next,
                            !.ret = IF cancelled THEN FALSE ELSE @]
    /\ hist' = [hist EXCEPT !.seen = @ \/ cancelled]
    /\ UNCHANGED <<job, cancelled, bi>>

\* updateFiles(files, maxFiles): the files callback receives the pair
updateFiles(h, files, maxFiles) ==
    [h EXCEPT !.filesCb = Append(@, <<files, maxFiles>>)]

\* "error = e; return false;" leading to label to
Fail(st, e, to) == [st EXCEPT !.error = e, !.ret = FALSE, !.pc = to]

\* ------------------------------------------------------------------------
\* MultiBootPatcher::cancelPatching, called from any thread at any time
\* ------------------------------------------------------------------------
cancelPatching ==
    /\ ~cancelled
    /\ cancelled' = TRUE
    /\ hist' = [hist EXCEPT !.setInZip =
                   @ \/ impl.pc \notin {"idle", "returned", "cleanup", "return"}]
    /\ UNCHANGED <<job, impl, bi>>

\* ------------------------------------------------------------------------
\* MultiBootPatcher::patchFile, up to the call of patchZip
\* ------------------------------------------------------------------------
\* cancelled = false, the ".zip" test and the reset of the counters
patchFileEnter(first) ==
    /\ cancelled' = FALSE
    /\ hist' = [HistInit EXCEPT !.again = ~first]
    /\ IF ~iends_with(job.filename, DotZip)
       THEN impl' = [impl EXCEPT !.error = "OnlyZipSupported", !.ret = FALSE,
                                 !.pc = "returned",
                                 !.tempCreated = FALSE, !.tempExists = FALSE]
       ELSE impl' = [impl EXCEPT !.files = 0, !.maxFiles = 0,
                                 !.bytes = Zero64, !.maxBytes = Zero64,
                                 !.exclude = {}, !.idx = 0, !.ap = 1,
                                 !.todo = {}, !.tempFiles = {},
                                 !.data = Bytes("none", NoMarks),
                                 !.rdFor = "none",
                                 !.tempCreated = FALSE, !.tempExists = FALSE,
                                 !.pc = "createStandardAp"]
    /\ UNCHANGED <<job, bi>>

\* The first patchFile call on the patcher
patchFileBegin ==
    /\ impl.pc = "idle"
    /\ patchFileEnter(TRUE)

\* A later patchFile call on the same patcher, after the previous returned
patchFileAgain ==
    /\ impl.pc = "returned"
    /\ patchFileEnter(FALSE)

\* ------------------------------------------------------------------------
\* MultiBootPatcher::Impl::patchZip
\* ------------------------------------------------------------------------
\* pc->createAutoPatcher("StandardPatcher", info)
createStandardAp ==
    /\ impl.pc = "createStandardAp"
    /\ \E ok \in BOOLEAN :
          impl' = IF ok
                  THEN [impl EXCEPT !.liveAps = @ \cup {"StandardPatcher"},
                                    !.pc = "createXposedAp"]
                  ELSE Fail(impl, "AutoPatcherCreateError", "cleanup")
    /\ UNCHANGED <<job, cancelled, hist, bi>>

\* pc->createAutoPatcher("XposedPatcher", info), the push_backs and the
\* collection of excludeFromPass1
createXposedAp ==
    /\ impl.pc = "createXposedAp"
    /\ \E ok \in BOOLEAN :
          impl' = IF ok
                  THEN [impl EXCEPT
                          !.liveAps = @ \cup {"XposedPatcher"},
                          !.autoPatchers = <<"StandardPatcher", "XposedPatcher">>,
                          !.exclude = job.existingFiles.StandardPatcher
                                      \cup job.existingFiles.XposedPatcher,
                          !.pc = "openOutputArchive"]
                  ELSE Fail(impl, "AutoPatcherCreateError", "cleanup")
    /\ UNCHANGED <<job, cancelled, hist, bi>>

\* openOutputArchive(): assert(zOutput == nullptr), then mzOpenOutputFile
openOutputArchive ==
    /\ impl.pc = "openOutputArchive"
    /\ \E ok \in BOOLEAN :
          LET a == [impl EXCEPT
                       !.assertFailed = @ \/ impl.zOutput # "null",
                       !.newPath = newFilePath(job.filename, job.romId)]
          IN impl' = IF ok
                     THEN [a EXCEPT !.zOutput = "open", !.output = <<>>,
                                    !.pc = "poll309"]
                     ELSE Fail([a EXCEPT !.zOutput = "null"],
                               "ArchiveWriteOpenError", "cleanup")
    /\ UNCHANGED <<job, cancelled, hist, bi>>

poll309 == Poll("poll309", "archiveStats", "cleanup")

\* FileUtils::mzArchiveStats and maxBytes = stats.totalSize
archiveStats ==
    /\ impl.pc = "archiveStats"
    /\ \/ impl' = [impl EXCEPT !.maxBytes = ToU64(totalSize(job.entries)),
                                !.pc = "poll321"]
       \/ \E e \in StatsErrors : impl' = Fail(impl, e, "cleanup")
    /\ UNCHANGED <<job, cancelled, hist, bi>>

poll321 == Poll("poll321", "openInputArchive", "cleanup")

\* maxFiles = stats.files + 3, updateFiles, openInputArchive() with its
\* assert(zInput == nullptr), FileUtils::createTemporaryDir
openInputArchive ==
    /\ impl.pc = "openInputArchive"
    /\ \E ok \in BOOLEAN :
          LET a == [impl EXCEPT !.maxFiles = N + 3,
                                !.assertFailed = @ \/ impl.zInput # "null"]
          IN impl' = IF ok
                     THEN [a EXCEPT !.zInput = "open",
                                    !.tempCreated = TRUE, !.tempExists = TRUE,
                                    !.tempFiles = {},
                                    !.pc = "pass1First"]
                     ELSE Fail([a EXCEPT !.zInput = "null"],
                               "ArchiveReadOpenError", "cleanup")
    /\ hist' = updateFiles(hist, impl.files, N + 3)
    /\ UNCHANGED <<job, cancelled, bi>>


\* ------------------------------------------------------------------------
\* MultiBootPatcher::Impl::pass1
\* ------------------------------------------------------------------------
\* unzGoToFirstFile(zInput)
pass1First ==
    /\ impl.pc = "pass1First"
    /\ \E ok \in BOOLEAN :
          impl' = IF ok
                  THEN [impl EXCEPT !.idx = 1, !.pc = "pass1Poll"]
                  ELSE Fail(impl, "ArchiveReadHeaderError", "pass1Failed")
    /\ UNCHANGED <<job, cancelled, hist, bi>>

pass1PollDropped ==
    /\ impl.pc = "pass1Poll"
    /\ impl' = [impl EXCEPT !.pc = "pass1Entry"]
    /\ UNCHANGED <<job, cancelled, hist, bi>>

\* "if (cancelled) return false;" at the top of the loop body
pass1Poll == Poll("pass1Poll", "pass1Entry", "pass1Failed")

RawNameKept(name) == name

\* The rename of the installer applied to entries that are copied raw
RawName(name) == IF name = UpdateBinary THEN UpdateBinaryOrig ELSE name

\* The size test with 30 MiB itself refused
isSizeOKBelow(uncompressed_size) == uncompressed_size < MaxBootImageSize

\* bool isSizeOK = fi.uncompressed_size <= 30 * 1024 * 1024
isSizeOK(uncompressed_size) == uncompressed_size <= MaxBootImageSize

\* The loop body after the exclusion test: the entry is read into memory
\* (boot image extensions, at most 30 MiB) or copied raw
pass1CopyOrPatch ==
    LET e == CurEntry
        isExtImg == ends_with(e.name, ".img")
        isExtLok == ends_with(e.name, ".lok")
        isExtGz == ends_with(e.name, ".gz")
        counted == [impl EXCEPT !.files = @ + 1]
        h == updateFiles(hist, impl.files + 1, impl.maxFiles)
    IN IF (isExtImg \/ isExtLok \/ isExtGz) /\ isSizeOK(e.size)
       THEN \/ /\ impl' = Fail(counted, "ArchiveReadDataError", "pass1Failed")
               /\ hist' = h
            \/ /\ impl' = [counted EXCEPT
                      !.data = e.data,
                      !.rdFor = IF isExtGz THEN "gz" ELSE "img",
                      !.pc = IF isExtGz THEN "cpioLoad"
                             ELSE IF BootImageIsValid(e.data.marks)
                                  THEN "biLoad" ELSE "pass1Add"]
               /\ hist' = [h EXCEPT !.rd = "none",
                      !.handled = Append(@, <<impl.idx, "memory">>)]
       ELSE \/ /\ impl' = Fail(counted, "ArchiveWriteDataError", "pass1Failed")
               /\ hist' = h
            \/ /\ impl' = [counted EXCEPT
                      !.output = Append(@, [name |-> RawName(e.name),
                                            data |-> e.data, pass |-> 1]),
                      !.bytes = Add64(@, ToU64(e.size)),
                      !.pc = "pass1Next"]
               /\ hist' = Written(UnitDone([h EXCEPT
                      !.handled = Append(@, <<impl.idx, "raw">>)]))

\* The loop body for an entry of the exclusion set with the entry left out
\* of the files count
pass1ExtractUncounted ==
    \/ /\ impl' = Fail(impl, "ArchiveReadDataError", "pass1Failed")
       /\ hist' = hist
    \/ /\ impl' = [impl EXCEPT
              !.tempFiles = @ \cup {[name |-> CurEntry.name,
                                     data |-> CurEntry.data]},
              !.pc = "pass1Next"]
       /\ hist' = UnitDone(hist)

\* The loop body for an entry of the exclusion set: mzExtractFile into the
\* temporary directory and continue
pass1Extract ==
    LET counted == [impl EXCEPT !.files = @ + 1]
        h == updateFiles(hist, impl.files + 1, impl.maxFiles)
    IN \/ /\ impl' = Fail(counted, "ArchiveReadDataError", "pass1Failed")
          /\ hist' = h
       \/ /\ impl' = [counted EXCEPT
                 !.tempFiles = @ \cup {[name |-> CurEntry.name,
                                        data |-> CurEntry.data]},
                 !.pc = "pass1Next"]
          /\ hist' = UnitDone([h EXCEPT
                 !.handled = Append(@, <<impl.idx, "extract">>)])

pass1EntryNoExclusion ==
    /\ impl.pc = "pass1Entry"
    /\ \/ /\ impl' = Fail(impl, "ArchiveReadHeaderError", "pass1Failed")
          /\ hist' = hist
       \/ pass1CopyOrPatch
    /\ UNCHANGED <<job, cancelled, bi>>

\* One iteration of the loop of pass1, from mzGetInfo on
pass1Entry ==
    /\ impl.pc = "pass1Entry"
    /\ \/ /\ impl' = Fail(impl, "ArchiveReadHeaderError", "pass1Failed")
          /\ hist' = hist
       \/ IF CurEntry.name \in impl.exclude
          THEN pass1Extract
          ELSE pass1CopyOrPatch
    /\ UNCHANGED <<job, cancelled, bi>>

\* CpioFile::load at the top of patchRamdisk
cpioLoad ==
    /\ impl.pc = "cpioLoad"
    /\ IF "cpio" \in impl.data.marks
       THEN /\ impl' = [impl EXCEPT !.pc = "poll207"]
            /\ hist' = hist
       ELSE /\ impl' = [impl EXCEPT !.error = "CpioError",
                                    !.pc = "ramdiskFailed"]
            /\ hist' = [hist EXCEPT !.rd = "failed"]
    /\ UNCHANGED <<job, cancelled, bi>>

poll207 == Poll("poll207", "ramdiskPatch", "ramdiskFailed")

\* The ids of the device's own ramdisk patcher and of the global one
DeviceRamdiskPatcher == "<device-id>/default"
GlobalRamdiskPatcher == "default"

\* The same with the global patcher asked for first
RunRamdiskPatcherGlobalFirst(creatable, patched) ==
    LET tried == IF GlobalRamdiskPatcher \in creatable
                 THEN <<GlobalRamdiskPatcher>>
                 ELSE <<GlobalRamdiskPatcher, DeviceRamdiskPatcher>>
        rp == IF Last(tried) \in creatable THEN <<Last(tried)>> ELSE <<>>
    IN [tried |-> tried, ran |-> rp, destroyed |-> rp,
        error |-> IF rp = <<>> THEN "RamdiskPatcherCreateError"
                  ELSE IF patched THEN "NoError" ELSE "PatcherError"]

\* createRamdiskPatcher for "<device-id>/default", for "default" if that
\* returned nullptr, then patchRamdisk of the patcher and
\* destroyRamdiskPatcher.  creatable holds the ids createRamdiskPatcher can
\* create, patched is the result of rp->patchRamdisk(); error is "NoError"
\* where the code goes on
RunRamdiskPatcher(creatable, patched) ==
    LET tried == IF DeviceRamdiskPatcher \in creatable
                 THEN <<DeviceRamdiskPatcher>>
                 ELSE <<DeviceRamdiskPatcher, GlobalRamdiskPatcher>>
        rp == IF Last(tried) \in creatable THEN <<Last(tried)>> ELSE <<>>
    IN [tried |-> tried, ran |-> rp, destroyed |-> rp,
        error |-> IF rp = <<>> THEN "RamdiskPatcherCreateError"
                  ELSE IF patched THEN "NoError" ELSE "PatcherError"]

\* The ramdisk patcher step of patchRamdisk
ramdiskPatch ==
    /\ impl.pc = "ramdiskPatch"
    /\ \E creatable \in SUBSET {DeviceRamdiskPatcher, GlobalRamdiskPatcher},
          patched \in BOOLEAN :
          LET r == RunRamdiskPatcher(creatable, patched)
              log == [tried |-> r.tried, ran |-> r.ran,
                      destroyed |-> r.destroyed]
          IN IF r.error = "NoError"
             THEN /\ impl' = [impl EXCEPT !.pc = "poll228"]
                  /\ hist' = [hist EXCEPT !.rp = log]
             ELSE /\ impl' = [impl EXCEPT !.error = r.error,
                                          !.pc = "ramdiskFailed"]
                  /\ hist' = [hist EXCEPT !.rd = "failed", !.rp = log]
    /\ UNCHANGED <<job, cancelled, bi>>

poll228 == Poll("poll228", "cpioCreate", "ramdiskFailed")

\* CpioFile::createData and *out = std::move(bd)
cpioCreate ==
    /\ impl.pc = "cpioCreate"
    /\ \/ /\ impl' = [impl EXCEPT !.pc = "poll240"]
          /\ hist' = hist
       \/ /\ impl' = [impl EXCEPT !.error = "CpioError",
                                   !.pc = "ramdiskFailed"]
          /\ hist' = [hist EXCEPT !.rd = "failed"]
    /\ UNCHANGED <<job, cancelled, bi>>

poll240 == Poll("poll240", "ramdiskPatched", "ramdiskFailed")

\* patchRamdisk returned true: the .gz entry takes the new ramdisk, the boot
\* image goes on to setRamdiskImage and create
ramdiskPatched ==
    /\ impl.pc = "ramdiskPatched"
    /\ impl' = IF impl.rdFor = "gz"
               THEN [impl EXCEPT !.data = Rewritten(@), !.pc = "pass1Add"]
               ELSE [impl EXCEPT !.pc = "biCreate"]
    /\ hist' = [hist EXCEPT !.rd = "ok", !.rp = NoRp]
    /\ UNCHANGED <<job, cancelled, bi>>

\* patchRamdisk returned false and pass1 returns false whatever the entry
ramdiskFailedFatal ==
    /\ impl.pc = "ramdiskFailed"
    /\ impl' = [impl EXCEPT !.ret = FALSE, !.pc = "pass1Failed"]
    /\ hist' = [hist EXCEPT !.rp = NoRp]
    /\ UNCHANGED <<job, cancelled, bi>>

\* patchRamdisk returned false: ignored for a .gz entry, which keeps its
\* bytes; patchBootImage and pass1 return false for a boot image
ramdiskFailed ==
    /\ impl.pc = "ramdiskFailed"
    /\ impl' = IF impl.rdFor = "gz"
               THEN [impl EXCEPT !.pc = "pass1Add"]
               ELSE [impl EXCEPT !.ret = FALSE, !.pc = "pass1Failed"]
    /\ hist' = [hist EXCEPT !.rp = NoRp]
    /\ UNCHANGED <<job, cancelled, bi>>

\* BootImage::load in patchBootImage
biLoad ==
    /\ impl.pc = "biLoad"
    /\ \E ok \in BOOLEAN :
          IF ok /\ LoadDispatch(impl.data.marks).src # "None"
          THEN /\ impl' = [impl EXCEPT !.pc = "cpioLoad"]
               /\ hist' = hist
          ELSE /\ impl' = Fail(impl, "BootImageParseError", "pass1Failed")
               /\ hist' = [hist EXCEPT !.biFailed = "load"]
    /\ UNCHANGED <<job, cancelled, bi>>

\* setRamdiskImage and BootImage::create in patchBootImage; when create
\* fails, error = bi.error() copies a field that create never assigned
biCreate ==
    /\ impl.pc = "biCreate"
    /\ \/ /\ impl' = [impl EXCEPT
                 !.data = [Rewritten(@) EXCEPT !.marks =
                              IF LoadDispatch(impl.data.marks).type = "Android"
                              THEN {"android", "cpio"} ELSE impl.data.marks],
                 !.pc = "poll273"]
          /\ hist' = hist
       \/ /\ \E e \in ErrorCodes : impl' = Fail(impl, e, "pass1Failed")
          /\ hist' = [hist EXCEPT !.biFailed = "create"]
    /\ UNCHANGED <<job, cancelled, bi>>

poll273 == Poll("poll273", "pass1Add", "pass1Failed")

\* maxBytes update, FileUtils::mzAddFile(zOutput, curFile, data) and
\* bytes += data.size()
pass1Add ==
    /\ impl.pc = "pass1Add"
    /\ LET size == dataSize(CurEntry, impl.data)
           grown == [impl EXCEPT !.maxBytes =
                        growMaxBytes(@, size, CurEntry.size)]
       IN \/ /\ \E e \in AddFileErrors :
                   impl' = Fail(grown, e, "pass1Failed")
             /\ hist' = hist
          \/ /\ impl' = [grown EXCEPT
                   !.output = Append(@, [name |-> CurEntry.name,
                                         data |-> impl.data, pass |-> 1]),
                   !.bytes = Add64(@, ToU64(size)),
                   !.pc = "pass1Next"]
             /\ hist' = Written(UnitDone(hist))
    /\ UNCHANGED <<job, cancelled, bi>>

\* unzGoToNextFile(zInput) and the test after the loop
pass1Next ==
    /\ impl.pc = "pass1Next"
    /\ \/ impl' = IF impl.idx < N
                  THEN [impl EXCEPT !.idx = @ + 1, !.pc = "pass1Poll"]
                  ELSE [impl EXCEPT !.pc = "poll516"]
       \/ impl' = Fail(impl, "ArchiveReadHeaderError", "pass1Failed")
    /\ hist' = [hist EXCEPT !.rd = "none"]
    /\ UNCHANGED <<job, cancelled, bi>>

poll516 == Poll("poll516", "poll341", "pass1Failed")

\* pass1 returned false: io::deleteRecursively(tempDir); return false
pass1Failed ==
    /\ impl.pc = "pass1Failed"
    /\ impl' = [impl EXCEPT !.tempExists = FALSE, !.ret = FALSE,
                            !.pc = "cleanup"]
    /\ UNCHANGED <<job, cancelled, hist, bi>>

\* "if (cancelled) return false;" between the passes
poll341 == Poll("poll341", "pass2ApPoll", "cleanup")


\* ------------------------------------------------------------------------
\* MultiBootPatcher::Impl::pass2
\* ------------------------------------------------------------------------
TempNames(temp) == {f.name : f \in temp}

\* AutoPatcher::patchFiles(temporaryDir): the patcher may edit the files it
\* requested that are present in the directory
ApPatchFiles(a, temp) ==
    {{IF f.name \in E THEN [f EXCEPT !.data = Rewritten(@)] ELSE f : f \in temp} :
        E \in SUBSET (job.existingFiles[a] \cap TempNames(temp))}

pass2ApPoll == Poll("pass2ApPoll", "pass2Ap", "pass2Failed")

\* ap->patchFiles(temporaryDir) with a failure of the patcher recorded in
\* error and the loop going on
pass2ApLenient ==
    /\ impl.pc = "pass2Ap"
    /\ LET a == impl.autoPatchers[impl.ap]
           after == IF impl.ap < Len(impl.autoPatchers) THEN "pass2ApPoll"
                    ELSE IF impl.exclude = {} THEN "poll568"
                    ELSE "pass2FilePoll"
       IN \/ /\ impl' = [impl EXCEPT !.error = "PatcherError", !.ap = @ + 1,
                                     !.todo = impl.exclude, !.pc = after]
             /\ hist' = [hist EXCEPT !.apFailed = impl.ap]
          \/ /\ \E t \in ApPatchFiles(a, impl.tempFiles) :
                   impl' = [impl EXCEPT !.tempFiles = t, !.ap = @ + 1,
                                        !.todo = impl.exclude, !.pc = after]
             /\ hist' = UnitDone(hist)
    /\ UNCHANGED <<job, cancelled, bi>>

\* ap->patchFiles(temporaryDir) for the next AutoPatcher
pass2Ap ==
    /\ impl.pc = "pass2Ap"
    /\ LET a == impl.autoPatchers[impl.ap]
           after == IF impl.ap < Len(impl.autoPatchers) THEN "pass2ApPoll"
                    ELSE IF impl.exclude = {} THEN "poll568"
                    ELSE "pass2FilePoll"
       IN \/ /\ impl' = Fail(impl, "PatcherError", "pass2Failed")
             /\ hist' = [hist EXCEPT !.apFailed = impl.ap]
          \/ /\ \E t \in ApPatchFiles(a, impl.tempFiles) :
                   impl' = [impl EXCEPT !.tempFiles = t, !.ap = @ + 1,
                                        !.todo = impl.exclude, !.pc = after]
             /\ hist' = UnitDone(hist)
    /\ UNCHANGED <<job, cancelled, bi>>

pass2FilePoll == Poll("pass2FilePoll", "pass2File", "pass2Failed")

Pass2NameKept(file) == file

\* The name under which pass2 adds a file of the exclusion set
Pass2Name(file) == IF file = UpdateBinary THEN UpdateBinaryOrig ELSE file

\* FileUtils::mzAddFile(zOutput, name, temporaryDir + "/" + file) for the
\* next file of the set, in the unspecified order of the unordered_set
pass2File ==
    /\ impl.pc = "pass2File"
    /\ \E file \in impl.todo :
          LET rest == impl.todo \ {file}
              after == IF rest = {} THEN "poll568" ELSE "pass2FilePoll"
              found == {f \in impl.tempFiles : f.name = file}
          IN IF found = {}
             THEN \* FileOpenError: warning, next file
                  /\ impl' = [impl EXCEPT !.todo = rest, !.pc = after]
                  /\ hist' = hist
             ELSE \/ /\ impl' = Fail(impl, "ArchiveWriteDataError",
                                     "pass2Failed")
                     /\ hist' = [hist EXCEPT !.addFailed = TRUE]
                  \/ /\ \E f \in found :
                           impl' = [impl EXCEPT
                               !.output = Append(@, [name |-> Pass2Name(file),
                                                     data |-> f.data,
                                                     pass |-> 2]),
                               !.todo = rest, !.pc = after]
                     /\ hist' = Written(UnitDone(hist))
    /\ UNCHANGED <<job, cancelled, bi>>

poll568 == Poll("poll568", "pass2Done", "pass2Failed")

\* pass2 returned false: io::deleteRecursively(tempDir); return false
pass2Failed ==
    /\ impl.pc = "pass2Failed"
    /\ impl' = [impl EXCEPT !.tempExists = FALSE, !.ret = FALSE,
                            !.pc = "cleanup"]
    /\ UNCHANGED <<job, cancelled, hist, bi>>

\* pass2 returned true: io::deleteRecursively(tempDir)
pass2Done ==
    /\ impl.pc = "pass2Done"
    /\ impl' = [impl EXCEPT !.tempExists = FALSE, !.pc = "poll352"]
    /\ UNCHANGED <<job, cancelled, hist, bi>>

\* ------------------------------------------------------------------------
\* patchZip: finalization
\* ------------------------------------------------------------------------
poll352 == Poll("poll352", "addUpdateBinary", "cleanup")

\* updateFiles(++files, maxFiles) and FileUtils::mzAddFile of one of the
\* three appended entries
AddFinal(here, name, data, next) ==
    /\ impl.pc = here
    /\ LET counted == [impl EXCEPT !.files = @ + 1]
           h == updateFiles(hist, impl.files + 1, impl.maxFiles)
       IN \/ /\ \E e \in AddFileErrors : impl' = Fail(counted, e, "cleanup")
             /\ hist' = h
          \/ /\ impl' = [counted EXCEPT
                   !.output = Append(@, [name |-> name, data |-> data,
                                         pass |-> 3]),
                   !.pc = next]
             /\ hist' = Written(UnitDone(h))
    /\ UNCHANGED <<job, cancelled, bi>>

addUpdateBinary ==
    AddFinal("addUpdateBinary", UpdateBinary, MbtoolRecovery, "poll367")

poll367 == Poll("poll367", "addBbWrapper", "cleanup")

addBbWrapper ==
    AddFinal("addBbWrapper", BbWrapper, BbWrapperScript, "poll381")

poll381 == Poll("poll381", "addInfoProp", "cleanup")

addInfoProp ==
    AddFinal("addInfoProp", InfoProp, InfoPropText, "poll395")

\* The last poll of patchZip and "return true"
poll395 ==
    /\ impl.pc = "poll395"
    /\ impl' = [impl EXCEPT !.ret = ~cancelled, !.pc = "cleanup"]
    /\ hist' = [hist EXCEPT !.seen = @ \/ cancelled]
    /\ UNCHANGED <<job, cancelled, bi>>

\* ------------------------------------------------------------------------
\* MultiBootPatcher::patchFile, after patchZip returned
\* ------------------------------------------------------------------------
CloseArchiveLeak(handle) == handle

\* closeInputArchive / closeOutputArchive, called only on an open handle
CloseArchive(handle) == "null"

\* Callbacks reset, destroyAutoPatcher for each of autoPatchers, clear(),
\* and the two archives closed if open
patchFileCleanup ==
    /\ impl.pc = "cleanup"
    /\ impl' = [impl EXCEPT
           !.liveAps = @ \ Range(impl.autoPatchers),
           !.autoPatchers = <<>>,
           !.zInput = IF @ # "null" THEN CloseArchive(@) ELSE @,
           !.zOutput = IF @ # "null" THEN CloseArchive(@) ELSE @,
           !.pc = "return"]
    /\ hist' = [hist EXCEPT !.ranZip = TRUE, !.zipRet = impl.ret,
                            !.zipErr = impl.error,
                            !.flagAtZipEnd = cancelled]
    /\ UNCHANGED <<job, cancelled, bi>>

ReturnValueNoOverride(flag, st) == st

\* "if (cancelled) { error = PatchingCancelled; return false; } return ret;"
ReturnValue(flag, st) ==
    IF flag THEN [st EXCEPT !.error = "PatchingCancelled", !.ret = FALSE]
    ELSE st

patchFileReturn ==
    /\ impl.pc = "return"
    /\ impl' = [ReturnValue(cancelled, impl) EXCEPT
                                                    !.pc = "returned"]
    /\ hist' = [hist EXCEPT !.flagAtReturn = cancelled]
    /\ UNCHANGED <<job, cancelled, bi>>


\* ------------------------------------------------------------------------
\* BootImage
\* ------------------------------------------------------------------------
\* The switch of BootImage::create: the format handler that encodes
CreateDispatch(type) ==
    CASE type = "Android" -> "AndroidFormat"
      [] type = "Bump" -> "BumpFormat"
      [] type = "Loki" -> "LokiFormat"
      [] type = "Mtk" -> "MtkFormat"
      [] type = "SonyElf" -> "SonyElfFormat"
      [] OTHER -> "None"

\* The handler whose loadImage BootImage::load calls for a source type
Decoder(src) == CreateDispatch(src)

\* BootImage::load(data, size); ok is the result of the handler's loadImage
bootLoad ==
    \E m \in SUBSET (Marks \ {"cpio"}), ok \in BOOLEAN :
        LET d == LoadDispatch(m)
            ret == d.src # "None" /\ ok
        IN /\ bi' = [bi EXCEPT
                     !.type = IF d.src = "None" THEN bi.type ELSE d.type,
                     !.sourceType = IF d.src = "None" THEN bi.sourceType
                                    ELSE d.src,
                     !.loaded = IF ret THEN "ok" ELSE "failed",
                     !.marks = m, !.probed = d.probed,
                     !.decoder = Decoder(d.src),
                     !.encoder = "None", !.targetSet = FALSE]
           /\ UNCHANGED <<job, impl, cancelled, hist>>

\* BootImage::setTargetType
bootSetTargetType ==
    \E t \in Types :
        /\ bi' = [bi EXCEPT !.type = t, !.targetSet = TRUE,
                             !.encoder = "None"]
        /\ UNCHANGED <<job, impl, cancelled, hist>>

\* BootImage::create
bootCreate ==
    /\ bi' = [bi EXCEPT !.encoder = CreateDispatch(bi.type)]
    /\ UNCHANGED <<job, impl, cancelled, hist>>

\* ------------------------------------------------------------------------
\* BootImage holding an MTK image: load, the setters, create
\* ------------------------------------------------------------------------

\* BootImage::load on a newly constructed object, of a file that is no Loki
\* and no Bump image: MtkFormat::isValid, then MtkFormat::loadImage if it
\* accepted the file
mtkLoad ==
    /\ bi.mtkLoaded = "no" /\ bi.edits = 0 /\ bi.created = "no"
    /\ \E d \in ImageDescs :
           LET Loaded(valid, r) ==
                   [bi EXCEPT
                       !.desc = d, !.valid = valid,
                       !.mtkLoaded = IF ~valid THEN "other"
                                     ELSE IF r.ok THEN "ok" ELSE "failed",
                       !.sourceType = IF valid THEN "Mtk" ELSE @,
                       !.type = IF valid THEN "Mtk" ELSE @,
                       !.i10e = IF valid THEN r.i10e ELSE @]
               Load(b) ==
                   Loaded(MtkFormatIsValid(b), MtkLoadImage(bi.i10e, b))
           IN bi' = Load(ImageBytes(d))
    /\ UNCHANGED <<job, impl, cancelled, hist>>

\* A setter called on an object that is new or holds a loaded image
Set(s, v) ==
    /\ bi.mtkLoaded \in {"no", "ok"}
    /\ bi.edits < MaxEdits
    /\ bi' = [bi EXCEPT !.i10e = ApplySetter(@, s, v), !.edits = @ + 1,
                         !.created = "no", !.image = <<>>,
                         !.dataOut = <<>>]
    /\ UNCHANGED <<job, impl, cancelled, hist>>

NewPayloads == {<<>>, Data(5, 8)}
NewMtkHeaders == {<<>>, MtkHeader(0, 1), Data(6, 4)}
NewPageSizes == {2048, 4096, 1000}

\* BootImage::setKernelImage
setKernelImage == \E v \in NewPayloads : Set("setKernelImage", v)

\* BootImage::setRamdiskImage
setRamdiskImage == \E v \in NewPayloads : Set("setRamdiskImage", v)

\* BootImage::setSecondBootloaderImage
setSecondBootloaderImage ==
    \E v \in NewPayloads : Set("setSecondBootloaderImage", v)

\* BootImage::setDeviceTreeImage
setDeviceTreeImage == \E v \in NewPayloads : Set("setDeviceTreeImage", v)

\* BootImage::setKernelMtkHeader
setKernelMtkHeader == \E v \in NewMtkHeaders : Set("setKernelMtkHeader", v)

\* BootImage::setRamdiskMtkHeader
setRamdiskMtkHeader ==
    \E v \in NewMtkHeaders : Set("setRamdiskMtkHeader", v)

\* BootImage::setPageSize
setPageSize == \E v \in NewPageSizes : Set("setPageSize", v)

\* What the caller's BinData may hold when it is passed to create
OutBuffers == {<<>>, Data(7, 16)}

\* BootImage::create with target type Mtk; dataOut is the buffer as it was
\* passed, image the buffer after the call
mtkCreate ==
    /\ bi.type = "Mtk"
    /\ bi.mtkLoaded \in {"no", "ok"}
    /\ bi.created = "no"
    /\ \E dataOut \in OutBuffers, resized \in BOOLEAN :
          LET Created(r) ==
                  [bi EXCEPT !.created = IF r.ok THEN "ok" ELSE "failed",
                             !.image = r.data, !.dataOut = dataOut]
          IN bi' = Created(MtkCreateImage(bi.i10e, dataOut, resized))
    /\ UNCHANGED <<job, impl, cancelled, hist>>

\* ------------------------------------------------------------------------
\* MtkFormat::isValid on a buffer whose header declares any sizes
\* ------------------------------------------------------------------------

\* Buffers: the size, the offset at which findHeader found the header (the
\* header lies inside the buffer), the page size and the kernel and ramdisk
\* sizes the header declares
ProbeSizes == {608, 1120, 2560, 4608, 6144}

DeclaredSizes ==
    {<<0, 0>>, <<0, 8>>, <<0, 520>>, <<0, 2048>>, <<0, 2560>>,
     <<65535, 63488>>, <<65535, 64000>>, <<65535, 65535>>}

Probes ==
    {p \in [size : ProbeSizes, headerIndex : {0, HeaderSearchStep},
            page_size : {2048, 4096}, kernel_size : DeclaredSizes,
            ramdisk_size : DeclaredSizes, called : {TRUE}] :
        p.size >= p.headerIndex + BootImageHeaderSize}

\* The bytes at an offset lie inside a buffer of the given size
InBuffer(pos, len, size) ==
    pos[1] < Half \div 2 /\ pos[1] * Half + pos[2] + len <= size

\* MtkFormat::isValid(data, size); what memcmp finds at an offset inside the
\* buffer is up to the file, and at an offset outside it is whatever
\* memory holds there
mtkIsValid ==
    /\ ~bi.probe.called
    /\ \E p \in Probes, kernelMagic \in BOOLEAN, ramdiskMagic \in BOOLEAN :
           LET Called(r) == [bi EXCEPT !.probe = p, !.reads = r.reads,
                                       !.valid = r.valid]
           IN bi' = Called(MtkFormatIsValid32(p.headerIndex, p.size, p,
                                              kernelMagic, ramdiskMagic))
    /\ UNCHANGED <<job, impl, cancelled, hist>>

\* ------------------------------------------------------------------------
\* Two BootImage objects and operator==
\* ------------------------------------------------------------------------

\* The first object is (bi.type, bi.i10e), the second is bi.other
Obj(side) ==
    IF side = 1 THEN [type |-> bi.type, i10e |-> bi.i10e] ELSE bi.other

\* Object side becomes o
WithObj(side, o) ==
    IF side = 1
    THEN [bi EXCEPT !.type = o.type, !.i10e = o.i10e, !.edits = @ + 1,
                    !.eq = "none"]
    ELSE [bi EXCEPT !.other = o, !.edits = @ + 1, !.eq = "none"]

\* Arguments given to a setter
SetterArgs(s) ==
    IF s \in ImageSetters \cup BlobSetters THEN {<<>>, Data(7, 4)}
    ELSE {0, 1}

\* Files loaded into the two objects: they differ in the unused field of
\* the header and in the id
EqDescs ==
    {[kernel |-> Section("full", 8, 8), ramdisk |-> Section("none", 0, 8),
      second |-> 0, dt |-> 0, goodId |-> g, unused |-> u, keep |-> "all"] :
        g \in BOOLEAN, u \in {0, 1}}

\* Any setter called on either object
eqSet ==
    /\ bi.edits < MaxEqEdits
    /\ \E side \in {1, 2}, s \in ImageSetters \cup BlobSetters
                                   \cup NumberSetters :
           \E v \in SetterArgs(s) :
               bi' = WithObj(side, [Obj(side) EXCEPT
                                       !.i10e = ApplySetter(@, s, v)])
    /\ UNCHANGED <<job, impl, cancelled, hist>>

\* BootImage::setTargetType called on either object
eqSetTargetType ==
    /\ bi.edits < MaxEqEdits
    /\ \E side \in {1, 2}, t \in Types :
           bi' = WithObj(side, [Obj(side) EXCEPT !.type = t])
    /\ UNCHANGED <<job, impl, cancelled, hist>>

\* Either object replaced by a new BootImage into which an MTK file is
\* loaded
eqLoad ==
    /\ bi.edits < MaxEqEdits
    /\ \E side \in {1, 2}, d \in EqDescs :
           LET Loaded(valid, r) ==
                   /\ valid /\ r.ok
                   /\ bi' = WithObj(side, [type |-> "Mtk", i10e |-> r.i10e])
               Load(b) ==
                   Loaded(MtkFormatIsValid(b), MtkLoadImage(I10eInit, b))
           IN Load(ImageBytes(d))
    /\ UNCHANGED <<job, impl, cancelled, hist>>

\* first == second
eqCompare ==
    /\ bi.eq = "none"
    /\ bi' = [bi EXCEPT !.eq = IF BootImageEquals(Obj(1), Obj(2))
                                THEN "equal" ELSE "differ"]
    /\ UNCHANGED <<job, impl, cancelled, hist>>

\* ------------------------------------------------------------------------
\* newFilePath called on a patcher with a FileInfo set
\* ------------------------------------------------------------------------
newFilePathCall ==
    /\ impl.pc = "idle"
    /\ impl.newPath = <<>>
    /\ impl' = [impl EXCEPT !.newPath = newFilePath(job.filename, job.romId)]
    /\ UNCHANGED <<job, cancelled, hist, bi>>

\* ------------------------------------------------------------------------
\* Specifications
\* ------------------------------------------------------------------------
Worker ==
    \/ createStandardAp \/ createXposedAp \/ openOutputArchive \/ poll309
    \/ archiveStats \/ poll321 \/ openInputArchive
    \/ pass1First \/ pass1Poll \/ pass1Entry
    \/ cpioLoad \/ poll207 \/ ramdiskPatch \/ poll228 \/ cpioCreate
    \/ poll240 \/ ramdiskPatched \/ ramdiskFailed
    \/ biLoad \/ biCreate \/ poll273
    \/ pass1Add \/ pass1Next \/ poll516 \/ pass1Failed \/ poll341
    \/ pass2ApPoll \/ pass2Ap \/ pass2FilePoll \/ pass2File \/ poll568
    \/ pass2Failed \/ pass2Done
    \/ poll352 \/ addUpdateBinary \/ poll367 \/ addBbWrapper \/ poll381
    \/ addInfoProp \/ poll395
    \/ patchFileCleanup \/ patchFileReturn

Next == patchFileBegin \/ cancelPatching \/ Worker

Spec == Init /\ [][Next]_vars

\* The caller's thread runs a started patchFile to its return
FairInit ==
    /\ job \in [filename : FileNames, entries : ZipFiles(MaxLiveEntries),
                existingFiles : ExistingFilesChoices, romId : {DualRomId}]
    /\ impl = ImplInit
    /\ cancelled \in BOOLEAN
    /\ hist = HistInit
    /\ bi = BiInit

FairSpec == FairInit /\ [][Next]_vars /\ WF_vars(Worker)

\* Repeated patchFile calls on one patcher
ReuseInit ==
    /\ job \in [filename : FileNames, entries : ZipFiles(MaxReuseEntries),
                existingFiles : ExistingFilesChoices, romId : {DualRomId}]
    /\ impl = ImplInit
    /\ cancelled \in BOOLEAN
    /\ hist = HistInit
    /\ bi = BiInit

\* One patchFile call on a ZIP with ramdisk entries
GzInit ==
    /\ job \in [filename : FileNames, entries : GzZipFiles(MaxGzEntries),
                existingFiles : ExistingFilesChoices, romId : {DualRomId}]
    /\ impl = ImplInit
    /\ cancelled \in BOOLEAN
    /\ hist = HistInit
    /\ bi = BiInit

GzSpec == GzInit /\ [][Next]_vars

\* One patchFile call on a ZIP with boot image extensions
ImgInit ==
    /\ job \in [filename : FileNames, entries : ImgZipFiles(MaxImgEntries),
                existingFiles : ExistingFilesChoices, romId : {DualRomId}]
    /\ impl = ImplInit
    /\ cancelled \in BOOLEAN
    /\ hist = HistInit
    /\ bi = BiInit

ImgSpec == ImgInit /\ [][Next]_vars

\* One patchFile call on a ZIP whose entries change size or are excluded
ByteInit ==
    /\ job \in [filename : FileNames, entries : ByteZipFiles(MaxByteEntries),
                existingFiles : ExistingFilesChoices, romId : {DualRomId}]
    /\ impl = ImplInit
    /\ cancelled \in BOOLEAN
    /\ hist = HistInit
    /\ bi = BiInit

ByteSpec == ByteInit /\ [][Next]_vars

ReuseNext == patchFileBegin \/ patchFileAgain \/ cancelPatching \/ Worker

ReuseSpec == ReuseInit /\ [][ReuseNext]_vars

BootInit ==
    /\ job = [filename |-> <<"b", ".", "i", "m", "g">>,
              entries |-> <<Catalog[7]>>,
              existingFiles |-> [StandardPatcher |-> {}, XposedPatcher |-> {}],
              romId |-> DualRomId]
    /\ impl = ImplInit
    /\ cancelled = FALSE
    /\ hist = HistInit
    /\ bi = BiInit

BootNext == bootLoad \/ bootSetTargetType \/ bootCreate

BootSpec == BootInit /\ [][BootNext]_vars


\* A BootImage whose target type was set to Mtk
MtkInit ==
    /\ job = [filename |-> <<"b", ".", "i", "m", "g">>,
              entries |-> <<Catalog[7]>>,
              existingFiles |-> [StandardPatcher |-> {}, XposedPatcher |-> {}],
              romId |-> DualRomId]
    /\ impl = ImplInit
    /\ cancelled = FALSE
    /\ hist = HistInit
    /\ bi = [BiInit EXCEPT !.type = "Mtk", !.targetSet = TRUE]

MtkNext ==
    \/ mtkLoad \/ setKernelImage \/ setRamdiskImage
    \/ setSecondBootloaderImage \/ setDeviceTreeImage
    \/ setKernelMtkHeader \/ setRamdiskMtkHeader \/ setPageSize
    \/ mtkCreate

MtkSpec == MtkInit /\ [][MtkNext]_vars


\* Two newly constructed BootImage objects
EqInit ==
    /\ job = [filename |-> <<"b", ".", "i", "m", "g">>,
              entries |-> <<Catalog[7]>>,
              existingFiles |-> [StandardPatcher |-> {}, XposedPatcher |-> {}],
              romId |-> DualRomId]
    /\ impl = ImplInit
    /\ cancelled = FALSE
    /\ hist = HistInit
    /\ bi = BiInit

EqNext == eqSet \/ eqSetTargetType \/ eqLoad \/ eqCompare

EqSpec == EqInit /\ [][EqNext]_vars

\* MtkFormat::isValid called once on any of the buffers
ProbeNext == mtkIsValid

ProbeSpec == BootInit /\ [][ProbeNext]_vars

\* A patcher whose FileInfo names a .zip file and a ROM id
PathInit ==
    /\ job \in [filename : ZipPaths, entries : {<<Catalog[1]>>},
                existingFiles : {[StandardPatcher |-> {},
                                  XposedPatcher |-> {}]},
                romId : RomIds]
    /\ impl = ImplInit
    /\ cancelled = FALSE
    /\ hist = HistInit
    /\ bi = BiInit

PathNext == newFilePathCall

PathSpec == PathInit /\ [][PathNext]_vars

\* ------------------------------------------------------------------------
\* Properties of MultiBootPatcher
\* ------------------------------------------------------------------------
Returned == impl.pc = "returned"

Succeeded == Returned /\ hist.ranZip /\ impl.ret

Output == impl.output

OutNames == [i \in 1..Len(Output) |-> Output[i].name]

InNames == {job.entries[i].name : i \in 1..N}

\* The exclusion set as the AutoPatchers declare it
Excluded ==
    job.existingFiles.StandardPatcher \cup job.existingFiles.XposedPatcher

IsKept(e) == e.name \notin Excluded

IsPass1(o) == o.pass = 1

IsPass2(o) == o.pass = 2

IsPass3(o) == o.pass = 3

Renamed(name) == IF name = UpdateBinary THEN UpdateBinaryOrig ELSE name

\* C1: whenever patchFile returns after patchZip created the temporary
\* directory, the directory has been deleted
C1_TempDirDeleted ==
    (Returned /\ impl.tempCreated) => ~impl.tempExists

C3_CancelStops ==
    /\ [](hist.doneAfterCancel <= 1)
    /\ (hist.setInZip ~>
           (Returned /\ ~impl.ret /\ impl.error = "PatchingCancelled"))

C3_Witness ==
    /\ Returned /\ hist.setInZip /\ hist.doneAfterCancel = 1
    /\ ~impl.ret /\ impl.error = "PatchingCancelled"

\* C4: in the output of a successful patchFile the entries written in pass 1
\* are the non-excluded input entries in input order, they precede the
\* entries of the exclusion set, which are written in pass 2 only, and all
\* of these precede the three finalization entries
C4_PassOrder ==
    Succeeded =>
        LET kept == SelectSeq(job.entries, IsKept)
            p1 == SelectSeq(Output, IsPass1)
            p2 == SelectSeq(Output, IsPass2)
            p3 == SelectSeq(Output, IsPass3)
        IN /\ Output = p1 \o p2 \o p3
           /\ Len(p1) = Len(kept)
           /\ \A i \in 1..Len(p1) : p1[i].name = Renamed(kept[i].name)
           /\ \A i \in 1..Len(p1) : p1[i].name \notin Excluded
           /\ {p2[i].name : i \in 1..Len(p2)}
                 = {Renamed(n) : n \in Excluded \cap InNames}
           /\ Len(p2) = Cardinality(Excluded \cap InNames)
           /\ Len(p3) = 3

C4_Witness ==
    /\ Succeeded
    /\ \E i \in 1..N : \E j \in 1..N :
          /\ i < j
          /\ job.entries[i].name \in Excluded
          /\ job.entries[j].name \notin Excluded

\* C5: the output of a successful patchFile holds every non-excluded input
\* name (update-binary as update-binary.orig) and exactly three appended
\* entries: update-binary, bb-wrapper.sh and info.prop, in that order
C5_OutputNames ==
    Succeeded =>
        /\ \A n \in InNames \ Excluded : Renamed(n) \in Range(OutNames)
        /\ Len(Output) = N + 3
        /\ SubSeq(OutNames, N + 1, N + 3)
              = <<UpdateBinary, BbWrapper, InfoProp>>

C5_Witness ==
    /\ Succeeded
    /\ UpdateBinary \in InNames \ Excluded
    /\ InNames \cap Excluded # {}


\* The bytes of the input entry named update-binary
InstallerBytes ==
    (CHOOSE e \in Range(job.entries) : e.name = UpdateBinary).data

OnlyHelperIsUpdateBinary ==
    \A i \in 1..Len(Output) :
        Output[i].name = UpdateBinary =>
            (i = Len(Output) - 2 /\ Output[i].data = MbtoolRecovery)

\* C6 as stated: an input entry named update-binary is written only as
\* update-binary.orig, with its original bytes, in pass 1 and in pass 2
\* alike, and the only output entry named update-binary is the helper
\* installer
C6_OriginalBytes ==
    (Succeeded /\ UpdateBinary \in InNames) =>
        /\ \E i \in 1..Len(Output) :
              /\ Output[i].name = UpdateBinaryOrig
              /\ Output[i].data = InstallerBytes
        /\ OnlyHelperIsUpdateBinary

\* C6 amended: an input entry named update-binary is written only as
\* update-binary.orig: with its original bytes when it is copied in pass 1,
\* and with the bytes the file has in the temporary directory once the
\* AutoPatchers have run when it is in the exclusion set and added in pass
\* 2; the only output entry named update-binary is the helper installer
C6_RenamedInBothPasses ==
    (Succeeded /\ UpdateBinary \in InNames) =>
        /\ OnlyHelperIsUpdateBinary
        /\ IF UpdateBinary \notin Excluded
           THEN \E i \in 1..Len(Output) :
                   /\ Output[i].name = UpdateBinaryOrig
                   /\ Output[i].pass = 1
                   /\ Output[i].data = InstallerBytes
           ELSE \E i \in 1..Len(Output) :
                   /\ Output[i].name = UpdateBinaryOrig
                   /\ Output[i].pass = 2
                   /\ Output[i].data.id = InstallerBytes.id
                   /\ [name |-> UpdateBinary, data |-> Output[i].data]
                         \in impl.tempFiles

C6_Witness ==
    /\ Succeeded
    /\ UpdateBinary \in InNames \cap Excluded
    /\ \E i \in 1..Len(Output) :
          /\ Output[i].name = UpdateBinaryOrig
          /\ Output[i].pass = 2
          /\ Output[i].data.rev = 1

NoDuplicateNames ==
    \A i \in 1..Len(Output) : \A j \in 1..Len(Output) :
        Output[i].name = Output[j].name => i = j

\* C7: patching an already patched ZIP changes the update-binary chain only:
\* the old update-binary.orig becomes update-binary.orig.orig, the old
\* update-binary becomes update-binary.orig, and no other name is changed or
\* duplicated
C7_OnlyChainChanges ==
    (/\ Succeeded
     /\ {UpdateBinary, UpdateBinaryOrig, BbWrapper, InfoProp} \subseteq InNames)
        => /\ NoDuplicateNames
           /\ (UpdateBinaryOrig \o <<".orig">>) \in Range(OutNames)
           /\ Range(OutNames) =
                 (InNames \ {UpdateBinary, UpdateBinaryOrig})
                    \cup {UpdateBinary, UpdateBinaryOrig,
                          UpdateBinaryOrig \o <<".orig">>}

\* C8: after patchFile returns, on every exit path, both ZIP handles are
\* closed and null, and the asserts of openInputArchive and
\* openOutputArchive never fail in a later call
C8_HandlesClosed ==
    /\ Returned => (impl.zInput = "null" /\ impl.zOutput = "null")
    /\ ~impl.assertFailed

C8_Witness ==
    /\ Returned /\ hist.again /\ hist.ranZip
    /\ impl.tempCreated
    /\ impl.zInput = "null" /\ impl.zOutput = "null"

\* ------------------------------------------------------------------------
\* Properties of BootImage
\* ------------------------------------------------------------------------
ProbeOrder == <<"Loki", "Bump", "Mtk", "Android", "SonyElf">>

HandlerOf ==
    [Loki |-> "LokiFormat", Bump |-> "BumpFormat", Mtk |-> "MtkFormat",
     Android |-> "AndroidFormat", SonyElf |-> "SonyElfFormat"]

Accepting(m) == {i \in 1..Len(ProbeOrder) : FormatIsValid(ProbeOrder[i], m)}

FirstAccepting(m) ==
    CHOOSE i \in Accepting(m) : \A j \in Accepting(m) : i <= j

\* C9: load probes Loki, Bump, MTK, Android, Sony-ELF in this order, stops at
\* the first format whose isValid accepts, decodes with its handler and
\* records it as the source type
C9_FirstMatch ==
    bi.loaded # "no" =>
        IF Accepting(bi.marks) = {}
        THEN /\ bi.loaded = "failed"
             /\ bi.probed = ProbeOrder
             /\ bi.decoder = "None"
        ELSE LET k == FirstAccepting(bi.marks)
             IN /\ bi.probed = SubSeq(ProbeOrder, 1, k)
                /\ bi.sourceType = ProbeOrder[k]
                /\ bi.decoder = HandlerOf[ProbeOrder[k]]

C9_Witness ==
    /\ bi.loaded = "ok"
    /\ bi.sourceType = "Bump"
    /\ MtkIsValid(bi.marks) /\ AndroidIsValid(bi.marks)

DefaultTarget(src) == IF src = "Loki" THEN "Android" ELSE src

\* C10: after a successful load the target type is the source type, except
\* Android for a Loki source; create encodes with the handler of that type
\* unless setTargetType changed it, and then with the handler of the type
\* that was set
C10_TargetType ==
    /\ (bi.loaded = "ok" /\ ~bi.targetSet) =>
          /\ bi.type = DefaultTarget(bi.sourceType)
          /\ bi.encoder # "None" =>
                bi.encoder = HandlerOf[DefaultTarget(bi.sourceType)]
    /\ bi.encoder # "None" => bi.encoder = HandlerOf[bi.type]

C10_Witness ==
    /\ bi.loaded = "ok" /\ ~bi.targetSet
    /\ bi.sourceType = "Loki"
    /\ bi.encoder = "AndroidFormat"

\* ------------------------------------------------------------------------
\* Properties of MtkFormat and of the BootImage setters
\* ------------------------------------------------------------------------

\* The object holds an image: it is new or set up by setters, or its load
\* succeeded
Usable == bi.mtkLoaded \in {"no", "ok"}

\* C11: after every successful decode, MTK images included, and after any
\* sequence of setKernelImage, setRamdiskImage, setSecondBootloaderImage
\* and setDeviceTreeImage, each cached header size is the length of its
\* payload.
C11_CachedSizes ==
    Usable =>
        /\ bi.i10e.hdrKernelSize = Size(bi.i10e.kernelImage)
        /\ bi.i10e.hdrRamdiskSize = Size(bi.i10e.ramdiskImage)
        /\ bi.i10e.hdrSecondSize = Size(bi.i10e.secondImage)
        /\ bi.i10e.hdrDtSize = Size(bi.i10e.dtImage)

\* A file that MtkFormat::isValid accepted and whose Android part loads
\* was given to load
MtkDecoded ==
    bi.mtkLoaded \in {"ok", "failed"} /\ bi.valid /\ bi.desc.keep = "all"

\* The size field of a section's MTK header against the payload behind it
HasMtkHeader(s) == s.hdr = "full"
Shorter(s) == HasMtkHeader(s) /\ s.len < s.decl
Longer(s) == HasMtkHeader(s) /\ s.len > s.decl

\* C12 as stated: a size mismatch is fatal for the ramdisk and never for the
\* kernel, whether the kernel payload is longer or shorter than declared.
C12_KernelMismatchTolerated ==
    MtkDecoded =>
        (bi.mtkLoaded = "ok"
            <=> ~(Shorter(bi.desc.ramdisk) \/ Longer(bi.desc.ramdisk)))

\* C12 amended: decode fails when the ramdisk payload is longer or shorter
\* than its MTK header declares and when the kernel payload is shorter than
\* declared; a kernel payload longer than declared is accepted.
C12_ShortKernelFatal ==
    MtkDecoded =>
        (bi.mtkLoaded = "ok"
            <=> ~(\/ Shorter(bi.desc.ramdisk) \/ Longer(bi.desc.ramdisk)
                  \/ Shorter(bi.desc.kernel)))

C12_Witness ==
    /\ MtkDecoded /\ bi.mtkLoaded = "ok"
    /\ Longer(bi.desc.kernel) /\ HasMtkHeader(bi.desc.ramdisk)

\* The image create returned, read back: its header, the offsets of its
\* sections on page boundaries and the bytes of each section
PageCeil(n, page) == ((n + page - 1) \div page) * page
ImageLayout(b) ==
    LET hdr == HeaderAt(b, 0)
        page == hdr.page_size
        kPos == PageCeil(BootImageHeaderSize, page)
        rPos == kPos + PageCeil(hdr.kernel_size, page)
        sPos == rPos + PageCeil(hdr.ramdisk_size, page)
        dPos == sPos + PageCeil(hdr.second_size, page)
    IN [hdr |-> hdr, kernelPos |-> kPos, ramdiskPos |-> rPos,
        secondPos |-> sPos, dtPos |-> dPos,
        end |-> dPos + PageCeil(hdr.dt_size, page),
        kernel |-> Slice(b, kPos, hdr.kernel_size),
        ramdisk |-> Slice(b, rPos, hdr.ramdisk_size),
        second |-> Slice(b, sPos, hdr.second_size),
        dt |-> Slice(b, dPos, hdr.dt_size)]

Created == bi.created = "ok"

\* C13: the id of an MTK-encoded image is the SHA-1, zero-padded on the
\* right from 20 to 32 bytes, of the kernel section as written (MTK header
\* included), kernel_size, the ramdisk section as written, ramdisk_size,
\* the second bootloader, second_size (always), and only when dt_size > 0 the
\* device tree and dt_size; the sizes are those in the written header.
C13_IdIsSha1OfWrittenBytes ==
    Created =>
        LET img == ImageLayout(bi.image)
        IN img.hdr.id =
               Cat(Sha1(CatAll(<<
                       img.kernel, U32(img.hdr.kernel_size),
                       img.ramdisk, U32(img.hdr.ramdisk_size),
                       img.second, U32(img.hdr.second_size),
                       IF img.hdr.dt_size > 0
                       THEN Cat(img.dt, U32(img.hdr.dt_size)) ELSE <<>> >>)),
                   Zeros(BootIdSize - ShaDigestSize))

C13_Witness ==
    /\ Created /\ bi.mtkLoaded = "ok"
    /\ bi.i10e.mtkKernelHdr # <<>> /\ bi.i10e.mtkRamdiskHdr # <<>>
    /\ bi.i10e.secondImage = <<>> /\ bi.i10e.dtImage # <<>>

\* An image was loaded and encoded again with no setter called in between
RoundTrip == bi.mtkLoaded = "ok" /\ bi.edits = 0 /\ Created

\* The MTK size fields of the loaded file equal the payload lengths
SizeFieldsMatch ==
    ~(Shorter(bi.desc.kernel) \/ Longer(bi.desc.kernel)
        \/ Shorter(bi.desc.ramdisk) \/ Longer(bi.desc.ramdisk))

\* Decode moved each MTK header out of its payload
HeadersMovedOut ==
    /\ HasMtkHeader(bi.desc.kernel) =>
            /\ Size(bi.i10e.mtkKernelHdr) = MtkHeaderSize
            /\ bi.i10e.kernelImage = Data(1, bi.desc.kernel.len)
    /\ HasMtkHeader(bi.desc.ramdisk) =>
            /\ Size(bi.i10e.mtkRamdiskHdr) = MtkHeaderSize
            /\ bi.i10e.ramdiskImage = Data(2, bi.desc.ramdisk.len)

\* The re-encoded kernel MTK header carries the actual payload length
KernelSizeCorrected ==
    Longer(bi.desc.kernel) =>
        MtkHeaderSizeField(ImageLayout(bi.image).kernel) = bi.desc.kernel.len

\* C14 as stated: for an MTK image whose MTK size fields equal the payload
\* lengths, decode moves the headers out and encode with no change returns
\* the input byte for byte; a mismatching kernel size field is corrected.
C14_RoundTripIdentical ==
    RoundTrip =>
        /\ HeadersMovedOut
        /\ SizeFieldsMatch => bi.image = ImageBytes(bi.desc)
        /\ KernelSizeCorrected

\* C14 amended: the same for an image in the layout encode produces whose
\* id field already holds the SHA-1 that encode computes.
C14_RoundTripIdenticalGivenId ==
    RoundTrip =>
        /\ HeadersMovedOut
        /\ (SizeFieldsMatch /\ bi.desc.goodId) =>
                bi.image = ImageBytes(bi.desc)
        /\ KernelSizeCorrected

C14_Witness ==
    /\ RoundTrip /\ SizeFieldsMatch /\ bi.desc.goodId
    /\ HasMtkHeader(bi.desc.kernel) /\ HasMtkHeader(bi.desc.ramdisk)
    /\ bi.desc.dt > 0
    /\ bi.image = ImageBytes(bi.desc)

\* C15: the sizes in the header of an MTK-encoded image are those of the
\* current payloads: kernel_size and ramdisk_size are the payload length
\* plus 512 when the MTK header is present, second_size and dt_size are the
\* lengths of the second bootloader and of the device tree.
C15_HeaderSizesFromPayloads ==
    Created =>
        LET hdr == HeaderAt(bi.image, 0)
        IN /\ hdr.kernel_size =
                  Size(bi.i10e.kernelImage)
                      + (IF bi.i10e.mtkKernelHdr # <<>> THEN 512 ELSE 0)
           /\ hdr.ramdisk_size =
                  Size(bi.i10e.ramdiskImage)
                      + (IF bi.i10e.mtkRamdiskHdr # <<>> THEN 512 ELSE 0)
           /\ hdr.second_size = Size(bi.i10e.secondImage)
           /\ hdr.dt_size = Size(bi.i10e.dtImage)

C15_Witness ==
    /\ Created /\ bi.mtkLoaded = "ok" /\ bi.edits > 0
    /\ bi.i10e.mtkKernelHdr # <<>>
    /\ bi.i10e.hdrKernelSize # HeaderAt(bi.image, 0).kernel_size
    /\ bi.i10e.secondImage # <<>>

\* The bytes are all zero
AllZero(b) == \A k \in 1..Len(b) : b[k].t = "zero"

\* C18: in an MTK-encoded image the kernel, ramdisk, second bootloader and
\* device tree sections start at multiples of page_size, the total length is
\* a multiple of page_size, and the bytes between the end of the header or
\* of a section and the next page boundary are zero.
C18_PageAligned ==
    Created =>
        LET page == bi.i10e.pageSize
            img == ImageLayout(bi.image)
            kEnd == img.kernelPos + img.hdr.kernel_size
            rEnd == img.ramdiskPos + img.hdr.ramdisk_size
            sEnd == img.secondPos + img.hdr.second_size
            dEnd == img.dtPos + img.hdr.dt_size
        IN /\ img.hdr.page_size = page
           /\ Size(bi.image) = img.end
           /\ \A pos \in {img.kernelPos, img.ramdiskPos, img.secondPos,
                            img.dtPos, img.end} : pos % page = 0
           /\ Drop(img.kernel, Size(bi.i10e.mtkKernelHdr))
                  = bi.i10e.kernelImage
           /\ Drop(img.ramdisk, Size(bi.i10e.mtkRamdiskHdr))
                  = bi.i10e.ramdiskImage
           /\ img.second = bi.i10e.secondImage
           /\ img.dt = bi.i10e.dtImage
           /\ AllZero(Slice(bi.image, BootImageHeaderSize,
                            img.kernelPos - BootImageHeaderSize))
           /\ AllZero(Slice(bi.image, kEnd, img.ramdiskPos - kEnd))
           /\ AllZero(Slice(bi.image, rEnd, img.secondPos - rEnd))
           /\ AllZero(Slice(bi.image, sEnd, img.dtPos - sEnd))
           /\ AllZero(Slice(bi.image, dEnd, img.end - dEnd))

C18_Witness ==
    /\ Created /\ bi.i10e.pageSize = 4096
    /\ bi.i10e.mtkKernelHdr # <<>>
    /\ bi.i10e.secondImage # <<>> /\ bi.i10e.dtImage # <<>>
    /\ Size(bi.image) = 5 * 4096

\* MtkFormat::isValid was called on a file
Probed == bi.mtkLoaded # "no"

\* What the file given to isValid holds
HoldsHeader == bi.desc.keep # "nothing"
KernelFits == bi.desc.keep \in {"all", "kernel"}
AllPayloadsFit == bi.desc.keep = "all"
BeginsWithMagic(s) == s.hdr \in {"full", "short"}
DeclaredLen(s) ==
    CASE s.hdr = "none" -> s.len
      [] s.hdr = "full" -> MtkHeaderSize + s.len
      [] s.hdr = "short" -> 4 + s.len

\* C17 as stated: isValid is true exactly when the bytes hold an Android
\* header whose declared payloads fit in the buffer and the kernel or the
\* ramdisk region begins with the MTK magic, whatever its declared length.
C17_MagicAtAnyLength ==
    Probed =>
        (bi.valid <=>
            /\ HoldsHeader /\ AllPayloadsFit
            /\ \/ BeginsWithMagic(bi.desc.kernel)
               \/ BeginsWithMagic(bi.desc.ramdisk))

\* C17 amended: isValid is true exactly when the bytes hold an Android
\* header, the declared kernel region lies inside the buffer, and either
\* the kernel region is declared at least 512 bytes long and begins with
\* the MTK magic, or the declared ramdisk region lies inside the buffer, is
\* declared at least 512 bytes long and begins with the MTK magic.
C17_MagicInFullHeader ==
    Probed =>
        (bi.valid <=>
            /\ HoldsHeader /\ KernelFits
            /\ \/ /\ DeclaredLen(bi.desc.kernel) >= MtkHeaderSize
                  /\ BeginsWithMagic(bi.desc.kernel)
               \/ /\ AllPayloadsFit
                  /\ DeclaredLen(bi.desc.ramdisk) >= MtkHeaderSize
                  /\ BeginsWithMagic(bi.desc.ramdisk))

C17_Witness ==
    /\ Probed /\ ~bi.valid /\ bi.desc.keep = "all"
    /\ bi.desc.kernel.hdr = "short" /\ bi.desc.ramdisk.hdr = "short"

\* ------------------------------------------------------------------------
\* Properties of BootImage::operator==
\* ------------------------------------------------------------------------

\* Every field of BootImageIntermediate but hdr_unused: the payloads, the
\* addresses (kernel, ramdisk, second, tags, ipl, rpm, appsbl, entrypoint),
\* the cached sizes, the page size, the id, the board name and the cmdline
ComparedFields == DOMAIN I10eInit \ {"hdrUnused"}

\* C16: operator== is true exactly when the two images agree on every
\* payload, every integer field (all eight addresses, the sizes, the page
\* size, the id), the board name and the cmdline; the format tags and
\* hdr_unused have no influence.
C16_EqualsComparesAllFields ==
    bi.eq # "none" =>
        (bi.eq = "equal"
            <=> \A f \in ComparedFields : Obj(1).i10e[f] = Obj(2).i10e[f])

\* ------------------------------------------------------------------------
\* Properties of patchBootImage and of the ramdisk entries of pass 1
\* ------------------------------------------------------------------------

\* patchFile returned and the flag was not set when it did
ReturnedUncancelled == Returned /\ ~hist.flagAtReturn

\* C19: when BootImage::load fails the error is BootImageParseError, and
\* when BootImage::create fails the error patchFile surfaces is
\* BootImageCreateError, not a stale or unset value.
C19_BootImageErrors ==
    ReturnedUncancelled =>
        /\ hist.biFailed = "load" => impl.error = "BootImageParseError"
        /\ hist.biFailed = "create" => impl.error = "BootImageCreateError"

\* The current entry of pass 1 goes through patchRamdisk
GzPatched ==
    /\ impl.idx \in 1..N
    /\ ends_with(CurEntry.name, ".gz")
    /\ CurEntry.size <= MaxBootImageSize
    /\ CurEntry.name \notin impl.exclude

\* The entry pass 1 has just written for the current entry
GzWritten(data) ==
    /\ Output # <<>>
    /\ Last(Output) = [name |-> CurEntry.name, data |-> data, pass |-> 1]

\* C20: for a .gz entry of at most 30 MiB, a failure of the ramdisk
\* transform at any step (CPIO parse, patcher creation, patcher run,
\* re-serialization) is ignored: pass 1 goes on with the entry, writes it
\* with its original bytes and does not fail; when the transform succeeds
\* the transformed bytes are written.
C20_GzFailureIgnored ==
    /\ [](/\ (impl.pc = "pass1Next" /\ GzPatched /\ hist.rd = "ok") =>
               GzWritten(Rewritten(CurEntry.data))
          /\ (impl.pc = "pass1Next" /\ GzPatched /\ hist.rd # "ok") =>
               GzWritten(CurEntry.data))
    /\ [][(/\ impl.pc = "ramdiskFailed" /\ GzPatched /\ hist.rd = "failed"
            /\ impl' # impl) =>
              /\ impl'.pc = "pass1Add"
              /\ impl'.ret = impl.ret
              /\ impl'.data = CurEntry.data]_vars

C20_Witness ==
    /\ Succeeded
    /\ \E i \in 1..Len(Output) :
           /\ Output[i].name = <<"broken.cpio", ".gz">>
           /\ Output[i].data = Bytes("broken", NoMarks)
    /\ \E i \in 1..Len(Output) :
           /\ Output[i].name = <<"ramdisk.cpio", ".gz">>
           /\ Output[i].data = Rewritten(Bytes("ramdisk", {"cpio"}))

\* ------------------------------------------------------------------------
\* Properties of cancellation inside pass 1 and of the AutoPatcher list
\* ------------------------------------------------------------------------

\* C27: once a poll of the running patchFile call has read the cancel flag as
\* set, no entry is added to the output ZIP for the rest of the call.
C27_NoWriteAfterCancelSeen == hist.writtenAfterSeen = 0

\* C30: when patchFile has returned, every AutoPatcher the call created has
\* been destroyed and the autoPatchers list is empty.
C30_AutoPatchersDestroyed ==
    Returned => impl.liveAps = {} /\ impl.autoPatchers = <<>>

\* ------------------------------------------------------------------------
\* Properties of the files callback
\* ------------------------------------------------------------------------

\* The input entries whose loop body has passed updateFiles(++files, ...)
EntriesCounted ==
    CASE impl.pc \in {"idle", "createStandardAp", "createXposedAp",
                      "openOutputArchive", "poll309", "archiveStats",
                      "poll321", "openInputArchive", "pass1First"} -> 0
      [] impl.pc \in {"pass1Poll", "pass1Entry"} -> impl.idx - 1
      [] impl.pc \in {"cpioLoad", "poll207", "ramdiskPatch", "poll228",
                      "cpioCreate", "poll240", "ramdiskPatched",
                      "ramdiskFailed", "biLoad", "biCreate", "poll273",
                      "pass1Add", "pass1Next"} -> impl.idx
      [] OTHER -> N

\* The finalization entries whose updateFiles(++files, ...) has run
FinalsCounted ==
    CASE impl.pc = "poll367" -> 1
      [] impl.pc = "addBbWrapper" -> 1
      [] impl.pc = "poll381" -> 2
      [] impl.pc = "addInfoProp" -> 2
      [] impl.pc = "poll395" -> 3
      [] OTHER -> 0

InPatchZip ==
    impl.pc \notin {"idle", "returned", "cleanup", "return", "pass1Failed",
                    "pass2Failed"}

\* C21: with n input entries the files callback reports (0, n + 3) first and
\* then (1, n + 3), (2, n + 3), ... one step per input entry whose loop body
\* has started (entries of the exclusion set too) and per finalization
\* entry; the count never exceeds maxFiles, and the last pair reported by a
\* patchFile call that succeeds is (n + 3, n + 3).
C21_FilesCallback ==
    LET cb == hist.filesCb
    IN /\ \A k \in 1..Len(cb) : cb[k] = <<k - 1, N + 3>>
       /\ Len(cb) <= N + 4
       /\ cb # <<>> => impl.files = Len(cb) - 1 /\ impl.maxFiles = N + 3
       /\ InPatchZip /\ cb # <<>> =>
              impl.files = IF FinalsCounted > 0 THEN N + FinalsCounted
                           ELSE EntriesCounted
       /\ Succeeded => cb # <<>> /\ Last(cb) = <<N + 3, N + 3>>

C21_Witness ==
    /\ Succeeded
    /\ N >= 2
    /\ \E i \in 1..N : job.entries[i].name \in impl.exclude
    /\ Len(hist.filesCb) = N + 4

\* ------------------------------------------------------------------------
\* Properties of the ramdisk patcher choice
\* ------------------------------------------------------------------------

\* patchRamdisk is past its ramdisk patcher step and has not returned
RamdiskPatcherAsked == hist.rp.tried # <<>>

\* C22: the patcher "<device-id>/default" is asked for first and "default"
\* only after the first could not be created; when one was created it is the
\* only patcher run and it has been destroyed, whether its patchRamdisk
\* succeeded or failed; when neither was created no patcher ran and
\* patchRamdisk fails with RamdiskPatcherCreateError.
C22_OneRamdiskPatcher ==
    RamdiskPatcherAsked =>
        LET rp == hist.rp
        IN /\ rp.tried[1] = DeviceRamdiskPatcher
           /\ rp.tried \in {<<DeviceRamdiskPatcher>>,
                             <<DeviceRamdiskPatcher, GlobalRamdiskPatcher>>}
           /\ Len(rp.ran) <= 1
           /\ rp.ran # <<>> => rp.ran[1] = Last(rp.tried)
           /\ rp.destroyed = rp.ran
           /\ impl.pc \in {"poll228", "cpioCreate", "poll240",
                            "ramdiskPatched"} => Len(rp.ran) = 1
           /\ rp.ran = <<>> =>
                  /\ rp.tried = <<DeviceRamdiskPatcher, GlobalRamdiskPatcher>>
                  /\ impl.pc = "ramdiskFailed"
                  /\ impl.error = "RamdiskPatcherCreateError"
                  /\ hist.rd = "failed"

C22_Witness ==
    /\ impl.pc = "poll228"
    /\ impl.rdFor = "img"
    /\ hist.rp.ran = <<GlobalRamdiskPatcher>>

\* ------------------------------------------------------------------------
\* Properties of pass 2
\* ------------------------------------------------------------------------
Pass2Outputs == {Output[i] : i \in {k \in 1..Len(Output) : IsPass2(Output[k])}}

\* The files of the exclusion set the loop of pass 2 has dealt with
Pass2Handled == impl.exclude \ impl.todo

\* patchFile has not returned yet, or returned with the flag unset
NotOverridden == ~Returned \/ ~hist.flagAtReturn

\* C23: when an AutoPatcher's patchFiles fails, the patchers before it have
\* run, none after it runs, no file of the exclusion set is added to the
\* output and the call fails with the patcher's error; in the file loop of
\* pass 2 every file dealt with so far has been added if the temporary
\* directory holds it and skipped if not; an add that fails for a file the
\* directory holds ends the call with that error.
C23_Pass2Failures ==
    /\ hist.apFailed # 0 =>
           /\ impl.ap = hist.apFailed
           /\ Pass2Outputs = {}
           /\ impl.pc \in {"pass2Failed", "cleanup", "return", "returned"}
           /\ Returned => ~impl.ret
           /\ NotOverridden => impl.error = "PatcherError"
    /\ impl.pc \in {"pass2FilePoll", "pass2File", "poll568", "pass2Done"}
           \/ hist.addFailed =>
           {o.name : o \in Pass2Outputs} =
               {Pass2Name(f) :
                   f \in Pass2Handled \cap TempNames(impl.tempFiles)}
    /\ hist.addFailed =>
           /\ impl.todo \cap TempNames(impl.tempFiles) # {}
           /\ impl.pc \in {"pass2Failed", "cleanup", "return", "returned"}
           /\ Returned => ~impl.ret
           /\ NotOverridden => impl.error = "ArchiveWriteDataError"

\* Pass 2 has come to its end with one file of the exclusion set missing
\* from the temporary directory and another one added
C23_Witness ==
    /\ impl.pc = "pass2Done"
    /\ impl.exclude \ TempNames(impl.tempFiles) # {}
    /\ Pass2Outputs # {}

\* ------------------------------------------------------------------------
\* Properties of newFilePath
\* ------------------------------------------------------------------------
Stem(path) == SubSeq(path, 1, Len(path) - 4)

Extension(path) == SubSeq(path, Len(path) - 3, Len(path))

\* C24: for a file <stem>.zip and ROM id r, the path newFilePath returned is
\* the stem, an underscore, r and the four characters of the extension, in
\* that order.
C24_NewFilePath ==
    impl.newPath # <<>> =>
        impl.newPath = Stem(job.filename) \o <<"_">> \o job.romId
                           \o Extension(job.filename)

C24_Witness ==
    /\ impl.newPath = <<"a", ".", "_", "p", ".", "z", "i", "p">>
    /\ job.filename = <<"a", ".", ".", "z", "i", "p">>

\* ------------------------------------------------------------------------
\* Properties of the position arithmetic of MtkFormat::isValid
\* ------------------------------------------------------------------------
MtkMagicSize == 4

\* C29: every MTK magic that MtkFormat::isValid reads lies inside the
\* buffer it was given, whatever sizes the header declares.
C29_ReadsInsideBuffer ==
    \A k \in 1..Len(bi.reads) :
        InBuffer(bi.reads[k], MtkMagicSize, bi.probe.size)

\* The entries of the input handled so far in pass 1 and how: read into
\* memory, copied raw, or extracted to the temporary directory
HandledAs(how) ==
    {hist.handled[k][1] : k \in {j \in 1..Len(hist.handled) :
                                    hist.handled[j][2] = how}}

BootImageExt(name) == ends_with(name, ".img") \/ ends_with(name, ".lok")

MemoryExt(name) == BootImageExt(name) \/ ends_with(name, ".gz")

\* The loop of pass 1 has just dealt with the current entry
EntryDone == impl.pc = "pass1Next" /\ impl.idx \in 1..N

\* patchBootImage returned false for the current entry
PatchBootImageFailed ==
    /\ impl.pc = "pass1Failed"
    /\ impl.idx \in HandledAs("memory")
    /\ BootImageExt(CurEntry.name)
    /\ hist.biFailed # "none" \/ hist.rd = "failed"

\* C25: in pass 1 an entry outside the exclusion set is read into memory
\* only if its name ends in .img, .lok or .gz and it is at most 30 MiB, and
\* every other such entry is copied raw; an .img/.lok entry read into memory
\* is written with its own bytes if it is no boot image and re-encoded if it
\* is one; when patchBootImage fails pass 1 returns false and the output
\* holds nothing for the entry.
C25_Pass1Routing ==
    /\ \A k \in HandledAs("memory") \cup HandledAs("raw") :
          /\ job.entries[k].name \notin impl.exclude
          /\ k \in HandledAs("memory") <=>
                /\ MemoryExt(job.entries[k].name)
                /\ job.entries[k].size <= MaxBootImageSize
    /\ EntryDone /\ impl.idx \in HandledAs("raw") =>
          Last(impl.output) = [name |-> RawName(CurEntry.name),
                               data |-> CurEntry.data, pass |-> 1]
    /\ EntryDone /\ impl.idx \in HandledAs("memory")
          /\ BootImageExt(CurEntry.name) =>
          /\ Last(impl.output).name = CurEntry.name
          /\ IF BootImageIsValid(CurEntry.data.marks)
             THEN /\ Last(impl.output).data.id = CurEntry.data.id
                  /\ Last(impl.output).data.rev = CurEntry.data.rev + 1
                  /\ BootImageIsValid(Last(impl.output).data.marks)
             ELSE Last(impl.output).data = CurEntry.data
    /\ PatchBootImageFailed =>
          /\ impl.ret = FALSE
          /\ BootImageIsValid(CurEntry.data.marks)
          /\ \A k \in 1..Len(impl.output) :
                impl.output[k].name # CurEntry.name

\* Pass 1 completed on a ZIP with a boot image that was re-encoded and an
\* .img entry over 30 MiB that was copied raw
C25_Witness ==
    /\ impl.pc = "poll516"
    /\ \E k \in HandledAs("memory") :
          /\ BootImageExt(job.entries[k].name)
          /\ BootImageIsValid(job.entries[k].data.marks)
    /\ \E k \in HandledAs("raw") : BootImageExt(job.entries[k].name)
    /\ C25_Pass1Routing

\* C26: MtkFormat::createImage returns true only if the page size is one of
\* 2048, 4096, 8192, 16384, 32768, 65536, 131072 and each MTK header that is
\* present is 512 bytes long; with any other page size or header length it
\* returns false and the caller's buffer holds what it held before the
\* call, although the setters stored the value.
C26_MtkCreateRejects ==
    LET pageOk == bi.i10e.pageSize \in
                      {2048, 4096, 8192, 16384, 32768, 65536, 131072}
        kernelHdrOk == bi.i10e.mtkKernelHdr = <<>>
                           \/ Size(bi.i10e.mtkKernelHdr) = 512
        ramdiskHdrOk == bi.i10e.mtkRamdiskHdr = <<>>
                            \/ Size(bi.i10e.mtkRamdiskHdr) = 512
    IN /\ bi.created = "ok" => pageOk /\ kernelHdrOk /\ ramdiskHdrOk
       /\ bi.created # "no" /\ ~(pageOk /\ kernelHdrOk /\ ramdiskHdrOk) =>
             bi.created = "failed" /\ bi.image = bi.dataOut

\* create was refused for a page size that setPageSize had stored, with a
\* buffer that held bytes before the call
C26_Witness ==
    /\ bi.created = "failed"
    /\ bi.i10e.pageSize = 1000
    /\ bi.dataOut # <<>>
    /\ bi.image = bi.dataOut

\* create was refused for a four-byte MTK header that a setter had stored
C26_HeaderWitness ==
    /\ bi.created = "failed"
    /\ bi.i10e.pageSize = DefaultPageSize
    /\ Size(bi.i10e.mtkKernelHdr) = 4

\* Pass 1 ran to the end of its loop
Pass1Complete == impl.pc \in {"poll516", "poll341"}

\* The entries of the input that pass 1 wrote from memory, with the size
\* of the bytes written
RECURSIVE NetChange(_)
NetChange(k) ==
    IF k = 0 THEN 0
    ELSE NetChange(k - 1)
           + IF k \in HandledAs("memory")
             THEN LET written == CHOOSE o \in Range(impl.output) :
                                     o.pass = 1 /\ o.name = job.entries[k].name
                  IN (IF written.data = job.entries[k].data
                      THEN job.entries[k].size
                      ELSE IF ends_with(job.entries[k].name, ".gz")
                      THEN (job.entries[k].size * 7) \div 8
                      ELSE job.entries[k].size + 2048)
                     - job.entries[k].size
             ELSE 0

RECURSIVE ExcludedSize(_)
ExcludedSize(k) ==
    IF k = 0 THEN 0
    ELSE ExcludedSize(k - 1)
           + IF job.entries[k].name \in impl.exclude
             THEN job.entries[k].size ELSE 0

RECURSIVE InputSize(_)
InputSize(k) ==
    IF k = 0 THEN 0 ELSE InputSize(k - 1) + job.entries[k].size

\* uint64_t values as numbers, for values below 2^31
Value64(x) == IF x[1] = 0 /\ x[2] = 0 /\ x[3] < Half \div 2
              THEN x[3] * Half + x[4] ELSE -1

InPass1 ==
    impl.pc \in {"pass1First", "pass1Poll", "pass1Entry", "cpioLoad",
                 "poll207", "ramdiskPatch", "poll228", "cpioCreate",
                 "poll240", "ramdiskPatched", "ramdiskFailed", "biLoad",
                 "biCreate", "poll273", "pass1Add", "pass1Next", "poll516",
                 "pass1Failed"}

\* When pass 1 completes, maxBytes is the total uncompressed size of the
\* input plus new size minus old size of every entry written from memory
MaxBytesAdjusted ==
    Pass1Complete => Value64(impl.maxBytes) = InputSize(N) + NetChange(N)

\* bytes is at most maxBytes throughout pass 1
BytesWithinMax ==
    InPass1 \/ impl.pc = "poll341" => Le64(impl.bytes, impl.maxBytes)

\* The byte counts with the end of pass 1 as first stated: bytes equals
\* maxBytes exactly when the input has no entry of the exclusion set
C28_EqualIffNoneExcluded ==
    /\ MaxBytesAdjusted
    /\ BytesWithinMax
    /\ Pass1Complete =>
          (impl.bytes = impl.maxBytes
              <=> \A k \in 1..N : job.entries[k].name \notin impl.exclude)

\* C28: when pass 1 completes, maxBytes is the total uncompressed size of
\* the input plus new size minus old size of every entry written from
\* memory; bytes is at most maxBytes throughout pass 1; and at the end of
\* pass 1 bytes equals maxBytes exactly when the entries of the exclusion
\* set have a total uncompressed size of zero.
C28_ByteCounts ==
    /\ MaxBytesAdjusted
    /\ BytesWithinMax
    /\ Pass1Complete =>
          (impl.bytes = impl.maxBytes <=> ExcludedSize(N) = 0)

\* Pass 1 completed on a ZIP with a ramdisk that shrank, a boot image
\* that grew and an empty entry of the exclusion set
C28_Witness ==
    /\ Pass1Complete
    /\ \E k \in 1..N :
          /\ job.entries[k].name \in impl.exclude
          /\ job.entries[k].size = 0
    /\ \E o \in Range(impl.output) :
          o.pass = 1 /\ ends_with(o.name, ".gz") /\ o.data.rev = 1
    /\ \E o \in Range(impl.output) :
          o.pass = 1 /\ ends_with(o.name, ".img") /\ o.data.rev = 1
    /\ impl.bytes = impl.maxBytes
====
